---- MODULE Spec2Model ----
(***************************************************************************)
(* Release pipeline of wp_plugin_release (src/wp_plugin_release.go, the    *)
(* second, current copy of the program starting at line 869).              *)
(*                                                                         *)
(* A Go string is a sequence of one-character strings ("bytes"), so that   *)
(* offsets, lengths and splices are the ones the code computes.            *)
(***************************************************************************)
EXTENDS Integers, Sequences, FiniteSets, TLC

VARIABLES
    pc,             \* position of the run / of the function under check
    v1, v2,         \* operands handed to getHigherVersion
    hv,             \* value returned by getHigherVersion
    fs,             \* the files of the working directory
    clock,          \* what time.Now() returns next
    updateInfo,     \* the typed view (*UpdateInfo)
    allData,        \* the open map (map[string]interface{})
    currentVersion, \* the version processMainPHPFile returned
    err,            \* the error the last operation returned, "" for nil
    given,          \* what the run started from: source text, declarations, descriptor
    prior,          \* what the runs before this one left behind
    tree,           \* the working directory: host and the files and directories below it
    config,         \* update.config as loaded (ConfigType)
    ssh,            \* the upload: credentials gathered, connection, remote host
    run             \* the run of main: stages returned, messages printed and logged

vars == <<pc, v1, v2, hv, fs, clock, updateInfo, allData, currentVersion, err, given,
          prior, tree, config, ssh, run>>

\* the variables that only some of the operations touch
environment == <<prior, tree, config, ssh>>
others == <<prior, tree, config, ssh, run>>

(***************************************************************************)
(* Bounds                                                                  *)
(***************************************************************************)
MaxSegs == 3      \* most dot-separated segments of a version operand
MaxRuns == 2      \* most runs of the program, or of createZipFile, on one directory

(***************************************************************************)
(* Strings                                                                 *)
(***************************************************************************)
Digits == {"0", "1", "2", "3", "4", "5", "6", "7", "8", "9"}

DigitVal(c) ==
    CASE c = "0" -> 0 [] c = "1" -> 1 [] c = "2" -> 2 [] c = "3" -> 3
      [] c = "4" -> 4 [] c = "5" -> 5 [] c = "6" -> 6 [] c = "7" -> 7
      [] c = "8" -> 8 [] c = "9" -> 9

MinOf(S) == CHOOSE x \in S : \A y \in S : x <= y

\* s[from..to-1] with Go's 0-based half-open slice bounds: s[from:to]
Slice(s, from, to) == SubSeq(s, from + 1, to)

\* strings.Split(s, sep) for a one-byte separator: always at least one segment
RECURSIVE SplitFrom(_, _, _, _)
SplitFrom(s, sep, i, cur) ==
    IF i > Len(s) THEN <<cur>>
    ELSE IF s[i] = sep THEN <<cur>> \o SplitFrom(s, sep, i + 1, <<>>)
    ELSE SplitFrom(s, sep, i + 1, Append(cur, s[i]))

Split(s, sep) == SplitFrom(s, sep, 1, <<>>)

\* value of a run of decimal digits
RECURSIVE DigitsValue(_, _)
DigitsValue(s, acc) ==
    IF s = <<>> THEN acc ELSE DigitsValue(Tail(s), acc * 10 + DigitVal(Head(s)))

AllDigits(s) == s # <<>> /\ \A i \in 1..Len(s) : s[i] \in Digits

\* strconv.Atoi with the error dropped (n, _ = strconv.Atoi(seg)): an optional
\* sign followed by decimal digits gives the number, anything else gives 0.
Atoi(seg) ==
    IF seg # <<>> /\ Head(seg) \in {"+", "-"}
    THEN IF AllDigits(Tail(seg))
         THEN IF Head(seg) = "-" THEN 0 - DigitsValue(Tail(seg), 0)
                                 ELSE DigitsValue(Tail(seg), 0)
         ELSE 0
    ELSE IF AllDigits(seg) THEN DigitsValue(seg, 0) ELSE 0

(***************************************************************************)
(* getHigherVersion                                                        *)
(***************************************************************************)
\* component i (0-based) of a split version; a missing component stays 0
Component(parts, i) == IF i < Len(parts) THEN Atoi(parts[i + 1]) ELSE 0

\* mutant: the loop stops at the shorter operand and the longer one wins
CompareLoopLongerWins(a, b, parts1, parts2, i, maxLen) ==
    LET minLen == IF Len(parts1) < Len(parts2) THEN Len(parts1) ELSE Len(parts2)
        diff   == { k \in 1..minLen : Atoi(parts1[k]) # Atoi(parts2[k]) }
    IN  IF diff # {}
        THEN LET k == CHOOSE x \in diff : \A y \in diff : x <= y
             IN  IF Atoi(parts1[k]) > Atoi(parts2[k]) THEN a ELSE b
        ELSE IF Len(parts2) > Len(parts1) THEN b ELSE a

\* the comparison loop: for i := 0; i < maxLen; i++
RECURSIVE CompareLoop(_, _, _, _, _, _)
CompareLoop(a, b, parts1, parts2, i, maxLen) ==
    IF i >= maxLen THEN a   \* equal versions, return first
    ELSE LET n1 == Component(parts1, i)
             n2 == Component(parts2, i)
         IN  IF n1 > n2 THEN a
             ELSE IF n2 > n1 THEN b
             ELSE CompareLoop(a, b, parts1, parts2, i + 1, maxLen)

\* mutant: the guards for an empty operand are missing
getHigherVersionNoEmptyGuard(a, b) ==
    LET parts1 == Split(a, ".")
        parts2 == Split(b, ".")
        maxLen == IF Len(parts2) > Len(parts1) THEN Len(parts2) ELSE Len(parts1)
    IN  CompareLoop(a, b, parts1, parts2, 0, maxLen)

getHigherVersion(a, b) ==
    IF a = <<>> /\ b = <<>> THEN <<>>
    ELSE IF a = <<>> THEN b
    ELSE IF b = <<>> THEN a
    ELSE LET parts1 == Split(a, ".")
             parts2 == Split(b, ".")
             maxLen == IF Len(parts2) > Len(parts1) THEN Len(parts2) ELSE Len(parts1)
         IN  CompareLoop(a, b, parts1, parts2, 0, maxLen)

(***************************************************************************)
(* Source text and the patterns of processMainPHPFile                      *)
(*                                                                         *)
(* The text is a sequence of bytes. The values the code edits (versions,   *)
(* dates, URL, slug) are spelled byte by byte; each fixed keyword of a     *)
(* pattern is one byte of the text, named by the keyword it stands for.    *)
(* Offsets are 0-based as in Go; a match is the index slice that           *)
(* FindStringSubmatchIndex returns, <<>> when nothing matches.             *)
(***************************************************************************)
NoMatch == <<>>

\* byte at a 0-based offset, "" beyond the end
At(s, o) == IF o >= 0 /\ o < Len(s) THEN s[o + 1] ELSE ""

\* m[k] of an index slice, 0-based
Idx(m, k) == m[k + 1]

\* keywords of the patterns
KwBlock == "/*"                       \* /\*
KwLine == "//"                        \* //
KwVersion == "Version:"               \* \bVersion:\s*
KwLastUpdate == "Last-Update:"        \* \bLast-Update:\s*
KwClass == "private$version='"        \* private\s+\$version\s*=\s*['"]
KwDefine == "define('X_VERSION','"    \* define\s*\(\s*['"]([A-Z_]+)_VERSION['"]\s*,\s*['"]
KwQuote == "'"                        \* ['"]
KwParen == ")"                        \* \s*\)
KwPuc == "::buildUpdateChecker('"     \* \$?[a-zA-Z0-9_]*::buildUpdateChecker\(\s*'
KwPucMid == "',__FILE__,'"            \* '\s*,\s*__FILE__,\s*(//[^\n]*)?\s*'
QuoteBytes == {KwQuote, KwClass, KwDefine, KwPuc, KwPucMid}

\* end offset of the longest run of bytes of set S starting at offset o
RECURSIVE RunEnd(_, _, _)
RunEnd(s, o, S) == IF At(s, o) \in S THEN RunEnd(s, o + 1, S) ELSE o

\* [0-9]+\.[0-9]+ at offset o: its end offset, -1 when it does not match
TwoPartEnd(s, o) ==
    LET End(e1, e2) == IF e1 > o /\ At(s, e1) = "." /\ e2 > e1 + 1 THEN e2 ELSE -1
        Second(e1) == End(e1, RunEnd(s, e1 + 1, Digits))
    IN  Second(RunEnd(s, o, Digits))

\* [0-9]+\.[0-9]+\.[0-9]+ at offset o: its end offset, -1 when it does not match
ThreePartEnd(s, o) ==
    LET End(e2, e3) == IF e2 >= 0 /\ At(s, e2) = "." /\ e3 > e2 + 1 THEN e3 ELSE -1
        Third(e2) == End(e2, RunEnd(s, e2 + 1, Digits))
    IN  Third(TwoPartEnd(s, o))

\* ([0-9]+\.[0-9]+(?:\.[0-9]+)?) at offset o, greedy, followed by a byte of
\* Follow (Follow = {} when the pattern ends with the value): the end offset
\* of the value, -1 when it does not match
VersionEnd(s, o, Follow) ==
    LET End(e2, e3) ==
            IF e3 >= 0 /\ (Follow = {} \/ At(s, e3) \in Follow) THEN e3
            ELSE IF e2 >= 0 /\ (Follow = {} \/ At(s, e2) \in Follow) THEN e2
            ELSE -1
    IN  End(TwoPartEnd(s, o), ThreePartEnd(s, o))

Offsets(s) == 0..(Len(s) - 1)

\* dates: [0-9]{4}-[0-9]{2}-[0-9]{2} is one byte of DateBytes, " hh:mm" the
\* byte KwHourMin and ":ss" the byte KwSec
DateBytes == {"d0", "d1", "d2", "d3", "d4"}
KwHourMin == "hh:mm"
KwSec == ":ss"

\* ([0-9]{4}-[0-9]{2}-[0-9]{2}( [0-9]{2}:[0-9]{2}(:[0-9]{2})?)?) at offset o
DateEnd(s, o) ==
    IF At(s, o) \notin DateBytes THEN -1
    ELSE IF At(s, o + 1) # KwHourMin THEN o + 1
    ELSE IF At(s, o + 2) # KwSec THEN o + 2
    ELSE o + 3

\* end offset of the value that follows a tag: a version after Version:, a
\* date after Last-Update:; -1 when there is none
CommentValueEnd(s, o) == VersionEnd(s, o, {})

TaggedValueEnd(s, o, Tag) ==
    IF Tag = KwVersion THEN CommentValueEnd(s, o) ELSE DateEnd(s, o)

\* (?is)(?:/\*.*?\bVersion:\s*|//\s*Version:\s*)([0-9]+\.[0-9]+(?:\.[0-9]+)?)
\* tagged value: the first Tag after a block opener that is followed by a
\* value, or a Tag right after a line opener; leftmost start wins.
TagOffsets(s, Tag) ==
    { j \in Offsets(s) : At(s, j) = Tag /\ TaggedValueEnd(s, j + 1, Tag) >= 0 }

TaggedStarts(s, Tag) ==
    LET Starts(tags) ==
            { p \in Offsets(s) :
                \/ At(s, p) = KwBlock /\ \E j \in tags : j > p
                \/ At(s, p) = KwLine /\ (p + 1) \in tags }
    IN  Starts(TagOffsets(s, Tag))

\* offset of the Tag the leftmost match uses
TagOffset(s, p, Tag) ==
    IF At(s, p) = KwBlock
    THEN MinOf({ j \in TagOffsets(s, Tag) : j > p })
    ELSE p + 1

commentVersionRegex(s) ==
    LET Found(p, j, e) == <<p, e, j + 1, e>>
        Tagged(p, j) == Found(p, j, CommentValueEnd(s, j + 1))
        Leftmost(p) == Tagged(p, TagOffset(s, p, KwVersion))
        Among(starts) == IF starts = {} THEN NoMatch ELSE Leftmost(MinOf(starts))
    IN  Among(TaggedStarts(s, KwVersion))

\* private\s+\$version\s*=\s*['"]+([0-9]+\.[0-9]+(?:\.[0-9]+)?)['"]+
classVersionRegex(s) ==
    LET Found(p, e) == <<p, RunEnd(s, e, {KwQuote}), p + 1, e>>
        Leftmost(p) == Found(p, VersionEnd(s, p + 1, {KwQuote}))
        Among(starts) == IF starts = {} THEN NoMatch ELSE Leftmost(MinOf(starts))
    IN  Among({ p \in Offsets(s) :
                  At(s, p) = KwClass /\ VersionEnd(s, p + 1, {KwQuote}) >= 0 })

\* define\s*\(\s*['"]([A-Z_]+)_VERSION['"]\s*,\s*['"]([0-9]+\.[0-9]+(?:\.[0-9]+)?)['"]\s*\)
\* group 1 (the constant's name) lies inside the keyword byte
defineVersionRegex(s) ==
    LET Closed(e) == e >= 0 /\ At(s, e + 1) = KwParen
        Found(p, e) == <<p, e + 2, p, p + 1, p + 1, e>>
        Leftmost(p) == Found(p, VersionEnd(s, p + 1, {KwQuote}))
        Among(starts) == IF starts = {} THEN NoMatch ELSE Leftmost(MinOf(starts))
    IN  Among({ p \in Offsets(s) :
                  At(s, p) = KwDefine /\ Closed(VersionEnd(s, p + 1, {KwQuote})) })

\* (?is)(?:/\*.*?\bLast-Update:\s*|//\s*Last-Update:\s*)(date( hh:mm(:ss)?)?)
lastUpdateRegex(s) ==
    LET Found(p, j, e) ==
            <<p, e, j + 1, e>>
              \o (IF e >= j + 3 THEN <<j + 2, e>> ELSE <<-1, -1>>)
              \o (IF e = j + 4 THEN <<j + 3, e>> ELSE <<-1, -1>>)
        Tagged(p, j) == Found(p, j, DateEnd(s, j + 1))
        Leftmost(p) == Tagged(p, TagOffset(s, p, KwLastUpdate))
        Among(starts) == IF starts = {} THEN NoMatch ELSE Leftmost(MinOf(starts))
    IN  Among(TaggedStarts(s, KwLastUpdate))

\* (?is)(?:/\*.*?|//\s*)(\bVersion:\s*[0-9]+\.[0-9]+(?:\.[0-9]+)?)
versionLineRegex(s) ==
    LET Found(p, j, e) == <<p, e, j, e>>
        Tagged(p, j) == Found(p, j, CommentValueEnd(s, j + 1))
        Leftmost(p) == Tagged(p, TagOffset(s, p, KwVersion))
        Among(starts) == IF starts = {} THEN NoMatch ELSE Leftmost(MinOf(starts))
    IN  Among(TaggedStarts(s, KwVersion))

\* bytes of [-_a-zA-Z0-9] that occur in the slugs of the model
SlugBytes == Digits \cup {"-", "_", "a", "b", "n", "o", "p", "s", "v"}

\* (?s)\$?[a-zA-Z0-9_]*::buildUpdateChecker\(\s*'([^']*)'\s*,\s*__FILE__,\s*
\*     (//[^\n]*)?\s*'([-_a-zA-Z0-9]*)'\s*\)
\* group 2 (the optional comment) lies inside the keyword byte: unmatched
pucRegex(s) ==
    LET UrlEnd(p, alphabet) == RunEnd(s, p + 1, alphabet \ QuoteBytes)
        SlugEnd(ue) == RunEnd(s, ue + 1, SlugBytes)
        Closed(ue, se) ==
            At(s, ue) = KwPucMid /\ At(s, se) = KwQuote /\ At(s, se + 1) = KwParen
        Ends(ue) == Closed(ue, SlugEnd(ue))
        Found(p, ue, se) == <<p, se + 2, p + 1, ue, -1, -1, ue + 1, se>>
        Url(p, ue) == Found(p, ue, SlugEnd(ue))
        Among(starts, alphabet) ==
            IF starts = {} THEN NoMatch
            ELSE Url(MinOf(starts), UrlEnd(MinOf(starts), alphabet))
        Over(alphabet) ==
            Among({ p \in Offsets(s) : At(s, p) = KwPuc /\ Ends(UrlEnd(p, alphabet)) },
                  alphabet)
    IN  Over({ s[i] : i \in 1..Len(s) })

(***************************************************************************)
(* processMainPHPFile: the edits of the source text                        *)
(***************************************************************************)
\* filepath.Base: trailing separators dropped, then the last element
RECURSIVE TrimTrailingSlashes(_)
TrimTrailingSlashes(path) ==
    IF path # <<>> /\ path[Len(path)] = "/"
    THEN TrimTrailingSlashes(SubSeq(path, 1, Len(path) - 1))
    ELSE path

Base(path) ==
    LET Last(slashes) == IF slashes = {} THEN 0
                         ELSE CHOOSE i \in slashes : \A k \in slashes : k <= i
        Element(q) ==
            IF q = <<>> THEN <<"/">>
            ELSE SubSeq(q, Last({ i \in 1..Len(q) : q[i] = "/" }) + 1, Len(q))
    IN  IF path = <<>> THEN <<".">> ELSE Element(TrimTrailingSlashes(path))

\* strings.TrimSuffix
TrimSuffix(str, suffix) ==
    IF Len(str) >= Len(suffix) /\ Slice(str, Len(str) - Len(suffix), Len(str)) = suffix
    THEN Slice(str, 0, Len(str) - Len(suffix))
    ELSE str

\* strings.Index: 0-based offset of the first occurrence, -1 if none
Index(str, sub) ==
    LET First(hits) == IF hits = {} THEN -1 ELSE MinOf(hits)
    IN  First({ o \in 0..(Len(str) - Len(sub)) : Slice(str, o, o + Len(sub)) = sub })

\* strings.Replace(str, old, new, 1)
ReplaceFirst(str, old, new) ==
    LET At1(i) == IF i < 0 THEN str
                  ELSE Slice(str, 0, i) \o new \o Slice(str, i + Len(old), Len(str))
    IN  At1(Index(str, old))

UpdateInfoJson == <<"update_info.json">>

\* a text under edit: ok = FALSE once a slice expression was out of range
\* (the Go runtime panics and the process ends)
Text(str) == [ok |-> TRUE, s |-> str]

\* contentStr = contentStr[:from] + new + contentStr[to:]
GoSplice(r, from, to, new) ==
    IF ~r.ok THEN r
    ELSE IF from <= Len(r.s) /\ to <= Len(r.s)
         THEN Text(Slice(r.s, 0, from) \o new \o Slice(r.s, to, Len(r.s)))
         ELSE [ok |-> FALSE, s |-> r.s]

\* time.Now().Format("2006-01-02 15:04:05") for a clock reading t
FormatNow(t) == <<t, KwHourMin, KwSec>>

\* mutant: the winner is the higher of comment and class only
WinnerOfCommentAndClass(commentVersion, classVersion, defineVersion) ==
    getHigherVersion(commentVersion, classVersion)

\* lines 1103-1105: the higher of all three
WinningVersion(commentVersion, classVersion, defineVersion) ==
    getHigherVersion(getHigherVersion(commentVersion, classVersion), defineVersion)

\* lines 1112-1133: the three declarations brought to currentVersion, class
\* first, then comment, then define, each at the offsets found before any edit
\* (cur is currentVersion)
UpdateVersions(content, commentMatch, classMatch, defineMatch, cur) ==
    LET commentVersion == IF Len(commentMatch) = 4
                          THEN Slice(content, Idx(commentMatch, 2), Idx(commentMatch, 3))
                          ELSE <<>>
        classVersion == IF Len(classMatch) = 4
                        THEN Slice(content, Idx(classMatch, 2), Idx(classMatch, 3))
                        ELSE <<>>
        defineVersion == IF Len(defineMatch) >= 6
                         THEN Slice(content, Idx(defineMatch, 4), Idx(defineMatch, 5))
                         ELSE <<>>
        Class(c0) ==
            IF classVersion # <<>> /\ classVersion # cur /\ Len(classMatch) = 4
            THEN GoSplice(c0, Idx(classMatch, 2), Idx(classMatch, 3), cur)
            ELSE c0
        Comment(c1) ==
            IF commentVersion # <<>> /\ commentVersion # cur /\ Len(commentMatch) = 4
            THEN GoSplice(c1, Idx(commentMatch, 2), Idx(commentMatch, 3), cur)
            ELSE c1
        Define(c2) ==
            IF defineVersion # <<>> /\ defineVersion # cur /\ Len(defineMatch) >= 6
            THEN GoSplice(c2, Idx(defineMatch, 4), Idx(defineMatch, 5), cur)
            ELSE c2
    IN  Define(Comment(Class(Text(content))))

\* lines 1149-1151: back from the Version tag to the line break before it
RECURSIVE LineStart(_, _)
LineStart(str, pos) ==
    IF pos > 0 /\ At(str, pos) # "\n" THEN LineStart(str, pos - 1) ELSE pos

\* lines 1135-1155: the Last-Update value replaced, or a Last-Update line
\* added after the Version line
UpdateLastUpdate(r, currentDate) ==
    LET Insert(commentMatch, posBeforeVersion) ==
            Text(Slice(r.s, 0, Idx(commentMatch, 1))
                   \o Slice(r.s, posBeforeVersion, Idx(commentMatch, 2))
                   \o <<KwLastUpdate>> \o currentDate
                   \o Slice(r.s, Idx(commentMatch, 1), Len(r.s)))
        Add(commentMatch) ==
            IF Len(commentMatch) = 4
            THEN Insert(commentMatch, LineStart(r.s, Idx(commentMatch, 2)))
            ELSE r
        Update(lastUpdateMatch) ==
            IF Len(lastUpdateMatch) >= 4
            THEN GoSplice(r, Idx(lastUpdateMatch, 2), Idx(lastUpdateMatch, 3), currentDate)
            ELSE Add(versionLineRegex(r.s))
    IN  IF ~r.ok THEN r ELSE Update(lastUpdateRegex(r.s))

\* line 1159
NewDownloadURL(downloadURL) == ReplaceFirst(downloadURL, Base(downloadURL), UpdateInfoJson)

\* line 1160-1170: the registration call is there and its URL is not empty
PucValid(str) ==
    LET Valid(pucMatch) ==
            /\ Len(pucMatch) = 8
            /\ Idx(pucMatch, 2) > 0
            /\ Idx(pucMatch, 3) > Idx(pucMatch, 2)
    IN  Valid(pucRegex(str))

\* lines 1171-1190: slug literal first, then URL literal
UpdatePuc(r, downloadURL, newSlug) ==
    LET Url(pucMatch, r1, newDownloadURL) ==
            IF newDownloadURL # Slice(r.s, Idx(pucMatch, 2), Idx(pucMatch, 3))
            THEN GoSplice(r1, Idx(pucMatch, 2), Idx(pucMatch, 3), newDownloadURL)
            ELSE r1
        Slug(pucMatch, oldSlug) ==
            Url(pucMatch,
                IF newSlug # oldSlug
                THEN GoSplice(r, Idx(pucMatch, 6), Idx(pucMatch, 7), newSlug)
                ELSE r,
                NewDownloadURL(downloadURL))
        Call(pucMatch) ==
            Slug(pucMatch,
                 IF Idx(pucMatch, 6) > 0 /\ Idx(pucMatch, 7) > Idx(pucMatch, 6)
                 THEN Slice(r.s, Idx(pucMatch, 6), Idx(pucMatch, 7))
                 ELSE <<>>)
    IN  IF ~r.ok THEN r ELSE Call(pucRegex(r.s))

\* lines 1069-1194: what processMainPHPFile computes from the text it read:
\* status "ok" with the text to write and the version to return, or the
\* error it returns, or "panic" when a slice expression was out of range
PatchSource(content, downloadURL, slug, t) ==
    LET Failed(status) == [status |-> status, content |-> content, version |-> <<>>]
        Puc(winner, r2, r3) ==
            IF ~r2.ok THEN Failed("panic")
            ELSE IF ~PucValid(r2.s) THEN Failed("no_valid_puc")
            ELSE IF ~r3.ok THEN Failed("panic")
            ELSE [status |-> "ok", content |-> r3.s, version |-> winner]
        LastUpdate(winner, r2) == Puc(winner, r2, UpdatePuc(r2, downloadURL, slug))
        Versions(winner, commentMatch, classMatch, defineMatch) ==
            IF winner = <<>> THEN Failed("no_valid_version")
            ELSE LastUpdate(winner,
                            UpdateLastUpdate(
                                UpdateVersions(content, commentMatch, classMatch,
                                               defineMatch, winner),
                                FormatNow(t)))
        Matches(commentMatch, classMatch, defineMatch) ==
            Versions(WinningVersion(
                         IF Len(commentMatch) = 4
                         THEN Slice(content, Idx(commentMatch, 2), Idx(commentMatch, 3))
                         ELSE <<>>,
                         IF Len(classMatch) = 4
                         THEN Slice(content, Idx(classMatch, 2), Idx(classMatch, 3))
                         ELSE <<>>,
                         IF Len(defineMatch) >= 6
                         THEN Slice(content, Idx(defineMatch, 4), Idx(defineMatch, 5))
                         ELSE <<>>),
                     commentMatch, classMatch, defineMatch)
    IN  Matches(commentVersionRegex(content), classVersionRegex(content),
                defineVersionRegex(content))

(***************************************************************************)
(* Files                                                                   *)
(***************************************************************************)
NoFile == [exists |-> FALSE, data |-> <<>>]
File(data) == [exists |-> TRUE, data |-> data]

\* no run before this one
NoPrior == [run |-> 1, version |-> <<>>, ui |-> NoFile, uiBak |-> NoFile,
            Version |-> <<>>, LastUpdated |-> <<>>,
            zip |-> [exists |-> FALSE, name |-> <<>>, slug |-> <<>>, complete |-> FALSE,
                     entries |-> <<>>]]

\* the archive in Updates/: its file name, the slug handed to createZipFile,
\* whether it was written to the end, and its entries in the order written
NoZip == [exists |-> FALSE, name |-> <<>>, slug |-> <<>>, complete |-> FALSE,
          entries |-> <<>>]
Zip(name, slug, complete, entries) ==
    [exists |-> TRUE, name |-> name, slug |-> slug, complete |-> complete,
     entries |-> entries]

(***************************************************************************)
(* The working directory and createZipFile                                 *)
(***************************************************************************)
\* os.PathSeparator of the host the program runs on
Separator(host) == IF host = "windows" THEN "\\" ELSE "/"

\* filepath.ToSlash
RECURSIVE ToSlash(_, _)
ToSlash(host, path) ==
    IF path = <<>> THEN <<>>
    ELSE <<IF path[1] = Separator(host) THEN "/" ELSE path[1]>> \o ToSlash(host, Tail(path))

\* filepath.Base on the host: on Windows both separators end an element
FilepathBase(host, path) == Base(ToSlash(host, path))

\* filepath.Rel(sourceDir, path) of the entry whose names below sourceDir are segs
RECURSIVE Rel(_, _)
Rel(host, segs) ==
    IF segs = <<>> THEN <<".">>
    ELSE IF Len(segs) = 1 THEN segs[1]
    ELSE segs[1] \o <<Separator(host)>> \o Rel(host, Tail(segs))

\* filepath.Match without its error: literal bytes, "?" for one byte and "*"
\* for a run of bytes, neither of them the separator
RECURSIVE Glob(_, _, _)
Glob(host, pattern, name) ==
    IF pattern = <<>> THEN name = <<>>
    ELSE IF pattern[1] = "*"
    THEN \E k \in 0..Len(name) :
            /\ \A i \in 1..k : name[i] # Separator(host)
            /\ Glob(host, Tail(pattern), SubSeq(name, k + 1, Len(name)))
    ELSE /\ name # <<>>
         /\ IF pattern[1] = "?" THEN name[1] # Separator(host) ELSE pattern[1] = name[1]
         /\ Glob(host, Tail(pattern), Tail(name))

\* filepath.Match: a "[" opens a character class; the classes of the patterns
\* here are never closed, which is ErrBadPattern
Match(host, pattern, name) ==
    IF \E i \in 1..Len(pattern) : pattern[i] = "["
    THEN [matched |-> FALSE, err |-> "ErrBadPattern"]
    ELSE [matched |-> Glob(host, pattern, name), err |-> ""]

\* lines 1445-1462
shouldSkip(host, path, patterns) ==
    \E i \in 1..Len(patterns) :
        LET Hit(m) == m.err = "" /\ m.matched
            AnyOf(parts) == \E k \in 1..Len(parts) : Hit(Match(host, patterns[i], parts[k]))
        IN  \/ Hit(Match(host, patterns[i], FilepathBase(host, path)))
            \/ AnyOf(Split(ToSlash(host, path), "/"))

\* the bytes that occur in names, in the order of their values
Ascii ==
    <<"-", ".", "T", "U", "a", "b", "c", "d", "e", "f", "g", "h", "i", "j", "k", "l", "m",
      "n", "o", "p", "q", "r", "s", "t", "u", "v", "w", "x", "y", "z">>

Rank(c) == CHOOSE i \in 1..Len(Ascii) : Ascii[i] = c

\* a < b for Go strings
RECURSIVE StringLess(_, _)
StringLess(a, b) ==
    IF b = <<>> THEN FALSE
    ELSE IF a = <<>> THEN TRUE
    ELSE IF a[1] = b[1] THEN StringLess(Tail(a), Tail(b))
    ELSE Rank(a[1]) < Rank(b[1])

\* the names left as the directory was read
Unsorted(names) == names

\* sort.Strings, which filepath.Walk applies to the names of a directory
RECURSIVE SortStrings(_)
SortStrings(names) ==
    LET Least(m) == <<m>> \o SortStrings(SelectSeq(names, LAMBDA x : x # m))
    IN  IF names = <<>> THEN <<>>
        ELSE Least(CHOOSE m \in { names[i] : i \in 1..Len(names) } :
                     \A i \in 1..Len(names) : names[i] = m \/ StringLess(m, names[i]))

\* the names in directory dir, in the order readdir in which the host lists names
ReadDirNames(nodes, dir, readdir) ==
    SelectSeq(readdir, LAMBDA n : \E node \in nodes : node.path = Append(dir, n))

NodeAt(nodes, path) == CHOOSE node \in nodes : node.path = path

\* line 1411, the name left with the separators of the host
EntryNameOfHost(host, slug, relPath) == slug \o <<"/">> \o relPath

\* line 1411: slug + "/" + filepath.ToSlash(relPath)
EntryName(host, slug, relPath) == slug \o <<"/">> \o ToSlash(host, relPath)

\* filepath.Walk below the root with the callback of lines 1385-1426: the
\* entries written to the archive, in the order written.
\* w: host, nodes, patterns, slug, readdir
RECURSIVE Walk(_, _), WalkNames(_, _, _)
Walk(w, node) ==
    IF shouldSkip(w.host, Rel(w.host, node.path), w.patterns) THEN <<>>
    ELSE IF node.dir
    THEN WalkNames(w, node.path, SortStrings(ReadDirNames(w.nodes, node.path, w.readdir)))
    ELSE << [name |-> EntryName(w.host, w.slug, Rel(w.host, node.path)),
             data |-> node.data] >>

WalkNames(w, dir, names) ==
    IF names = <<>> THEN <<>>
    ELSE Walk(w, NodeAt(w.nodes, Append(dir, names[1]))) \o WalkNames(w, dir, Tail(names))

\* lines 1371-1382
defaultSkipPatterns ==
    << <<"U", "p", "d", "a", "t", "e", "s">>,
       <<"u", "p", "d", "a", "t", "e", ".", "c", "o", "n", "f", "i", "g">>,
       <<"u", "p", "d", "a", "t", "e", ".", "l", "o", "g">>,
       <<"*", ".", "c", "o", "d", "e", "-", "w", "o", "r", "k", "s", "p", "a", "c", "e">>,
       <<"*", ".", "b", "a", "k">>,
       <<"c", "o", "m", "p", "o", "s", "e", "r", ".", "l", "o", "c", "k">>,
       <<"T", "h", "u", "m", "b", "s", ".", "d", "b">> >>

\* the walk with the patterns of the caller alone
WalkTreeCallerPatternsOnly(t, skipPatterns, slug, readdir) ==
    LET From(w) == WalkNames(w, <<>>, SortStrings(ReadDirNames(w.nodes, <<>>, w.readdir)))
    IN  From([host |-> t.host, nodes |-> t.nodes, slug |-> slug, readdir |-> readdir,
              patterns |-> skipPatterns])

\* the walk createZipFile makes when nothing fails
WalkTree(t, skipPatterns, slug, readdir) ==
    LET From(w) == WalkNames(w, <<>>, SortStrings(ReadDirNames(w.nodes, <<>>, w.readdir)))
    IN  From([host |-> t.host, nodes |-> t.nodes, slug |-> slug, readdir |-> readdir,
              patterns |-> defaultSkipPatterns \o skipPatterns])

\* what can fail: os.Create of the archive, or the walk after it has written
\* some of the entries (the error the walk hands in, Rel, Create of the entry,
\* Open or Copy of the file), or the deferred zipWriter.Close(), which writes
\* the central directory, or zipFile.Close(), or nothing
ZipOutcomes(walked) ==
    {[step |-> "create", written |-> 0], [step |-> "none", written |-> Len(walked)],
     [step |-> "close", written |-> Len(walked)]}
      \cup { [step |-> "walk", written |-> k] : k \in 0..Len(walked) }

\* lines 1358-1443: the error returned and the archive left at zipPath;
\* walked is what the walk writes when nothing fails, old the file at zipPath.
\* The two Close calls are deferred (lines 1366 and 1369) and what they
\* return is dropped
createZipFile(walked, zipFileName, slug, io, old) ==
    IF io.step = "create" THEN [err |-> "error.zip_create", zip |-> old]
    ELSE [err |-> IF io.step = "walk" THEN "error.walk_files" ELSE "",
          zip |-> Zip(zipFileName, slug, io.step = "none", SubSeq(walked, 1, io.written))]

\* the names of TestShouldSkipAndZipCreation and some more
ATxt == <<"a", ".", "t", "x", "t">>
BLog == <<"b", ".", "l", "o", "g">>
UpdatesDir == <<"U", "p", "d", "a", "t", "e", "s">>
NestedDir == <<"n", "e", "s", "t", "e", "d">>
NestedX == <<"n", "e", "s", "t", "e", "d", "-", "x">>
ThumbsDb == <<"T", "h", "u", "m", "b", "s", ".", "d", "b">>
XBak == <<"x", ".", "b", "a", "k">>
MainPhp == <<"p", "l", "u", "g", "i", "n", ".", "p", "h", "p">>
MainPhpBak == MainPhp \o <<".", "b", "a", "k">>

RegularFile(path, data) == [path |-> path, dir |-> FALSE, data |-> data]
Directory(path) == [path |-> path, dir |-> TRUE, data |-> <<>>]

\* update.config before it is loaded, and with nothing but the patterns
ZeroConfig ==
    [SkipPattern |-> <<>>, SSHHost |-> <<>>, SSHUser |-> <<>>, SSHKeyFile |-> <<>>,
     SSHPassword |-> <<>>, SSHDirBase |-> <<>>]

\* the tree of TestShouldSkipAndZipCreation
TestTree ==
    [host |-> "unix",
     nodes |-> { RegularFile(<<ATxt>>, <<"A">>), RegularFile(<<BLog>>, <<"B">>),
                 Directory(<<UpdatesDir>>), RegularFile(<<UpdatesDir, ATxt>>, <<"I">>),
                 Directory(<<NestedDir>>), RegularFile(<<NestedDir, ThumbsDb>>, <<"T">>) }]

\* one order in which a host may list the names of a directory
ReadDirOrder ==
    <<BLog, XBak, MainPhpBak, ATxt, NestedX, UpdatesDir, MainPhp, ThumbsDb, NestedDir>>

\* the working directory as it was before the source patch
WorkDirBeforePatch(t, files) ==
    [host |-> t.host,
     nodes |-> t.nodes \cup {RegularFile(<<MainPhp>>, given.text)}]

\* the working directory: the tree and in it the main PHP file and its backup
WorkDir(t, files) ==
    [host |-> t.host,
     nodes |-> t.nodes
                 \cup (IF files.php.exists
                       THEN {RegularFile(<<MainPhp>>, files.php.data)} ELSE {})
                 \cup (IF files.phpBak.exists
                       THEN {RegularFile(<<MainPhpBak>>, files.phpBak.data)} ELSE {})]

(***************************************************************************)
(* uploadFiles: credentials, connection, remote directory and transfers    *)
(***************************************************************************)
Letters ==
    {"a", "b", "c", "d", "e", "f", "g", "h", "i", "j", "k", "l", "m", "n", "o", "p", "q",
     "r", "s", "t", "u", "v", "w", "x", "y", "z"}

\* the part of s before the first byte c, all of s when there is none
CutAt(s, c) ==
    LET Before(hits) == IF hits = {} THEN s ELSE SubSeq(s, 1, MinOf(hits) - 1)
    IN  Before({ i \in 1..Len(s) : s[i] = c })

\* the part of s from the first byte c on, nothing when there is none
FromFirst(s, c) ==
    LET From(hits) == IF hits = {} THEN <<>> ELSE SubSeq(s, MinOf(hits), Len(s))
    IN  From({ i \in 1..Len(s) : s[i] = c })

\* net/url getScheme: letters, and after the first byte digits, "+", "-" and
\* ".", up to a colon; a colon at the start is an error
getScheme(rawURL) ==
    LET None == [err |-> "", scheme |-> <<>>, rest |-> rawURL]
        Stop(stops) ==
            IF stops = {} \/ rawURL[MinOf(stops)] # ":" THEN None
            ELSE IF MinOf(stops) = 1
            THEN [err |-> "missing protocol scheme", scheme |-> <<>>, rest |-> <<>>]
            ELSE [err |-> "", scheme |-> SubSeq(rawURL, 1, MinOf(stops) - 1),
                  rest |-> SubSeq(rawURL, MinOf(stops) + 1, Len(rawURL))]
    IN  Stop({ i \in 1..Len(rawURL) :
                 /\ rawURL[i] \notin Letters
                 /\ ~(i > 1 /\ rawURL[i] \in Digits \cup {"+", "-", "."}) })

\* net/url validOptionalPort on the host from its last colon on
validOptionalPort(host) ==
    LET Port(colons) ==
            \/ colons = {}
            \/ \A i \in ((CHOOSE c \in colons : \A k \in colons : k <= c) + 1)..Len(host) :
                  host[i] \in Digits
    IN  Port({ i \in 1..Len(host) : host[i] = ":" })

\* url.Parse: the error and the Path of the URL (no user, no escapes, no
\* bracketed host): fragment and query cut off, scheme, authority, path
ParseURL(rawURL) ==
    LET Path(scheme, rest) ==
            IF rest = <<>> \/ rest[1] # "/"
            THEN IF scheme # <<>> THEN [err |-> "", Path |-> <<>>]
                 ELSE IF \E i \in 1..Len(CutAt(rest, "/")) : rest[i] = ":"
                 THEN [err |-> "first path segment in URL cannot contain colon", Path |-> <<>>]
                 ELSE [err |-> "", Path |-> rest]
            ELSE IF Len(rest) >= 2 /\ rest[2] = "/"
                    /\ (scheme # <<>> \/ ~(Len(rest) >= 3 /\ rest[3] = "/"))
            THEN IF validOptionalPort(CutAt(SubSeq(rest, 3, Len(rest)), "/"))
                 THEN [err |-> "", Path |-> FromFirst(SubSeq(rest, 3, Len(rest)), "/")]
                 ELSE [err |-> "invalid port", Path |-> <<>>]
            ELSE [err |-> "", Path |-> rest]
        Parsed(s) ==
            IF s.err # "" THEN [err |-> s.err, Path |-> <<>>]
            ELSE Path(s.scheme, CutAt(s.rest, "?"))
    IN  Parsed(getScheme(CutAt(rawURL, "#")))

\* strings.LastIndex for a one-byte separator: 0-based, -1 if none
LastIndex(str, c) ==
    LET Last(hits) == IF hits = {} THEN -1
                      ELSE (CHOOSE i \in hits : \A k \in hits : k <= i) - 1
    IN  Last({ i \in 1..Len(str) : str[i] = c })

\* lines 1591-1611, with the base directory taken as it is
parseRemotePathKeepBase(downloadURL, basedir) ==
    LET Dir(path) ==
            IF path[Len(path)] = "/"
            THEN [path |-> <<>>, err |-> "error.url_ends_directory"]
            ELSE IF LastIndex(path, "/") < 0
            THEN [path |-> <<>>, err |-> "error.url_no_filename"]
            ELSE [path |-> basedir \o Slice(path, 0, LastIndex(path, "/")), err |-> ""]
        Of(u) ==
            IF u.err # "" THEN [path |-> <<>>, err |-> u.err]
            ELSE Dir(IF u.Path = <<>> \/ u.Path[1] # "/" THEN <<"/">> \o u.Path ELSE u.Path)
    IN  Of(ParseURL(downloadURL))

\* lines 1591-1611
parseRemotePath(downloadURL, basedir) ==
    LET Dir(path) ==
            IF path[Len(path)] = "/"
            THEN [path |-> <<>>, err |-> "error.url_ends_directory"]
            ELSE IF LastIndex(path, "/") < 0
            THEN [path |-> <<>>, err |-> "error.url_no_filename"]
            ELSE [path |-> TrimSuffix(basedir, <<"/">>) \o Slice(path, 0, LastIndex(path, "/")),
                  err |-> ""]
        Of(u) ==
            IF u.err # "" THEN [path |-> <<>>, err |-> u.err]
            ELSE Dir(IF u.Path = <<>> \/ u.Path[1] # "/" THEN <<"/">> \o u.Path ELSE u.Path)
    IN  Of(ParseURL(downloadURL))

\* lines 1470-1490, with a key file counted whether or not it could be used
AuthMethodsKeyUnchecked(cfg, key) ==
    (IF cfg.SSHKeyFile # <<>> THEN <<"publickey">> ELSE <<>>)
      \o (IF cfg.SSHPassword # <<>> THEN <<"password">> ELSE <<>>)

\* lines 1470-1490: the methods gathered; key is what reading and parsing
\* the key file gives: "unreadable", "unparseable" or "valid"
AuthMethods(cfg, key) ==
    (IF cfg.SSHKeyFile # <<>> /\ key = "valid" THEN <<"publickey">> ELSE <<>>)
      \o (IF cfg.SSHPassword # <<>> THEN <<"password">> ELSE <<>>)

\* a file on the remote host
NoRemoteFile == [exists |-> FALSE, modTime |-> 0, data |-> <<>>]
RemoteFile(modTime, data) == [exists |-> TRUE, modTime |-> modTime, data |-> data]

\* lines 2419-2443: the time and the error of the probe; answer is what the
\* session gives: no session, a failed command, or the output of stat
getRemoteFileModTime(remote, answer) ==
    IF answer = "no_session" THEN [modTime |-> 0, err |-> "session"]
    ELSE IF answer = "failed" THEN [modTime |-> 0, err |-> "output"]
    ELSE IF answer = "garbage" THEN [modTime |-> 0, err |-> "ParseInt"]
    ELSE IF ~remote.exists THEN [modTime |-> 0, err |-> "file does not exist"]
    ELSE [modTime |-> remote.modTime, err |-> ""]

ProbeAnswers == {"no_session", "failed", "garbage", "stat"}

\* the steps of the transfer in the order of lines 1651-1702, and none
TransferSteps == <<"session", "open", "pipe", "start", "copy", "close", "wait", "none">>

StepNo(step) == CHOOSE i \in 1..Len(TransferSteps) : TransferSteps[i] = step

\* every step of the transfer made, whichever of them fails
StepsToTheEnd(io) == SubSeq(TransferSteps, 1, StepNo("wait"))

\* lines 1651-1702: the steps made when step io fails: the steps up to io,
\* and stdin.Close() after an io.Copy that failed (lines 1683-1689)
StepsPerformed(io) ==
    IF io = "none" THEN SubSeq(TransferSteps, 1, StepNo("wait"))
    ELSE SubSeq(TransferSteps, 1, StepNo(io))
           \o (IF io = "copy" THEN <<"close">> ELSE <<>>)

\* lines 1630-1705, with the transfer made whatever the probe says
uploadFileViaSFTPAlways(local, remote, answer, io, now) ==
    LET Transfer(probe) ==
            IF StepNo(io) <= StepNo("start")
            THEN [err |-> io, wrote |-> FALSE, remote |-> remote, probe |-> probe,
                  steps |-> StepsPerformed(io)]
            ELSE [err |-> IF io = "none" THEN "" ELSE io,
                  wrote |-> TRUE, probe |-> probe, steps |-> StepsPerformed(io),
                  remote |-> RemoteFile(now, IF io = "copy" THEN <<>> ELSE local.data)]
    IN  IF ~local.exists
        THEN [err |-> "stat", wrote |-> FALSE, remote |-> remote, steps |-> <<>>,
              probe |-> [modTime |-> 0, err |-> "not made"]]
        ELSE Transfer(getRemoteFileModTime(remote, answer))

\* lines 1630-1705: the error returned, what the probe reported, whether
\* the remote command that writes the file was started, and the remote file
\* afterwards; io is the step of the transfer that fails
uploadFileViaSFTP(local, remote, answer, io, now) ==
    LET Transfer(probe) ==
            IF StepNo(io) <= StepNo("start")
            THEN [err |-> io, wrote |-> FALSE, remote |-> remote, probe |-> probe,
                  steps |-> StepsPerformed(io)]
            ELSE [err |-> IF io = "none" THEN "" ELSE io,
                  wrote |-> TRUE, probe |-> probe, steps |-> StepsPerformed(io),
                  remote |-> RemoteFile(now, IF io = "copy" THEN <<>> ELSE local.data)]
        After(probe) ==
            IF probe.err = "" /\ ~(local.modTime > probe.modTime)
            THEN [err |-> "", wrote |-> FALSE, remote |-> remote, probe |-> probe,
                  steps |-> <<>>]
            ELSE Transfer(probe)
    IN  IF ~local.exists
        THEN [err |-> "stat", wrote |-> FALSE, remote |-> remote, steps |-> <<>>,
              probe |-> [modTime |-> 0, err |-> "not made"]]
        ELSE After(getRemoteFileModTime(remote, answer))

\* nothing of the upload has happened: what reading and parsing the key file
\* gives, the methods gathered, the connection attempts and the client, the
\* remote directory and whether mkdir made it, the calls of uploadFileViaSFTP,
\* the modification times of the local files, the files on the remote host,
\* the banner and icon entries the loops have visited and their warnings
NoSsh ==
    [key |-> "valid", authMethods |-> <<>>, dials |-> 0, client |-> "none",
     remoteLocalPath |-> <<>>, mkdir |-> "none", calls |-> <<>>,
     localModTime |-> [zip |-> 1, info |-> 1, banner |-> 1, icon |-> 1],
     remote |-> [zip |-> NoRemoteFile, info |-> NoRemoteFile, banner |-> NoRemoteFile,
                 icon |-> NoRemoteFile],
     visited |-> {}, warnings |-> {}]

(***************************************************************************)
(* The run of main and its log                                             *)
(***************************************************************************)
\* before main has done anything: no stage returned, nothing printed,
\* nothing appended to update.log, which is not open
NoRun == [stages |-> <<>>, printed |-> <<>>, logged |-> <<>>, logFile |-> "none"]

\* fmt.Printf alone
Printf(r, message) == [r EXCEPT !.printed = Append(@, message)]

\* lines 1055-1058: fmt.Println and logger.Println
logAndPrint(r, message) ==
    [r EXCEPT !.printed = Append(@, message), !.logged = Append(@, message)]

\* a stage of main has returned e
Returned(r, stage, e) == [r EXCEPT !.stages = Append(@, [name |-> stage, err |-> e])]

\* the first run of the program, with nothing else going on
OthersIdle ==
    /\ prior = NoPrior
    /\ tree = TestTree
    /\ config = ZeroConfig
    /\ ssh = NoSsh
    /\ run = NoRun

\* the zero value of UpdateInfo (fields the pipeline reads or writes)
ZeroUpdateInfo ==
    [Version |-> <<>>, LastUpdated |-> <<>>, DownloadURL |-> <<>>,
     Slug |-> <<>>, Homepage |-> <<>>, Sections |-> <<>>, Banners |-> {}, Icons |-> {}]

\* time.Now(): time only moves forward
Tick(t) ==
    IF t = "d1" THEN "d2" ELSE IF t = "d2" THEN "d3" ELSE IF t = "d3" THEN "d4" ELSE t

\* mutant: the new content is written without the rename before it
WriteWithoutBackup(old, bak, renameOK, writeOK, data) ==
    IF ~renameOK THEN [file |-> old, bak |-> bak, err |-> "rename"]
    ELSE IF ~writeOK THEN [file |-> old, bak |-> bak, err |-> "write"]
    ELSE [file |-> File(data), bak |-> bak, err |-> ""]

\* os.Rename(path, path+".bak") followed by os.WriteFile(path, data): the
\* file and its backup afterwards, and the step that failed
BackupAndWrite(old, bak, renameOK, writeOK, data) ==
    IF ~renameOK THEN [file |-> old, bak |-> bak, err |-> "rename"]
    ELSE IF ~writeOK THEN [file |-> NoFile, bak |-> old, err |-> "write"]
    ELSE [file |-> File(data), bak |-> old, err |-> ""]

(***************************************************************************)
(* processMainPHPFile                                                      *)
(***************************************************************************)
\* os.ReadFile, the edits, os.Rename and os.WriteFile; io names the first of
\* the three file operations that fails, "none" when all succeed
IoOutcomes == {"read", "rename", "write", "none"}

processMainPHPFileAt(here, next, failed) ==
    /\ pc = here
    /\ \E patch \in { PatchSource(fs.php.data, updateInfo.DownloadURL,
                                    updateInfo.Slug, clock) } :
           \E io \in IoOutcomes :
             LET out == BackupAndWrite(fs.php, fs.phpBak, io # "rename", io # "write",
                                       patch.content)
             IN  IF ~fs.php.exists \/ io = "read"
                 THEN /\ err' = "error.php_read_file"
                      /\ pc' = failed
                      /\ UNCHANGED <<fs, clock, currentVersion>>
                 ELSE IF patch.status = "no_valid_version"
                 THEN /\ err' = "error.no_valid_version"
                      /\ pc' = failed
                      /\ UNCHANGED <<fs, clock, currentVersion>>
                 ELSE IF patch.status = "panic"
                 THEN /\ err' = "panic"
                      /\ pc' = "crashed"
                      /\ UNCHANGED <<fs, clock, currentVersion>>
                 ELSE IF patch.status = "no_valid_puc"
                 THEN /\ err' = "error.no_valid_puc"
                      /\ pc' = failed
                      /\ clock' = Tick(clock)
                      /\ UNCHANGED <<fs, currentVersion>>
                 ELSE /\ fs' = [fs EXCEPT !.php = out.file, !.phpBak = out.bak]
                      /\ clock' = Tick(clock)
                      /\ err' = IF out.err = "rename" THEN "error.rename_file"
                                ELSE IF out.err = "write" THEN "error.write_php" ELSE ""
                      /\ pc' = IF out.err = "" THEN next ELSE failed
                      /\ currentVersion' = IF out.err = "" THEN patch.version ELSE <<>>
    /\ UNCHANGED <<environment, v1, v2, hv, updateInfo, allData, given>>

(***************************************************************************)
(* update_info.json: JSON values, documents and the two decodings          *)
(*                                                                         *)
(* A document is the top-level object as written in the file: a sequence   *)
(* of <<key, value>> members in file order. A value is a record of its     *)
(* kind and its text: "str" a string, "num" a number literal, "obj" a      *)
(* nested object {"y": <number literal>}, "map" an object of strings,      *)
(* given by the text of its changelog entry, "null".                       *)
(***************************************************************************)
JStr(v) == [k |-> "str", v |-> v]
JNum(v) == [k |-> "num", v |-> v]
JObj(v) == [k |-> "obj", v |-> v]
JMap(v) == [k |-> "map", v |-> v]
JNull == [k |-> "null", v |-> <<>>]

\* a file that is not JSON: an object that is never closed
GarbageDoc == << <<"{", JNull>> >>
ValidJson(doc) == \A i \in 1..Len(doc) : doc[i][1] # "{"

\* a number literal read into interface{} becomes a float64 and is written
\* back in its shortest form: 1.0 as 1, 9007199254740993 as 9007199254740992
Float64Text(lit) ==
    IF lit = <<"1", ".", "0">> THEN <<"1">>
    ELSE IF lit = <<"9007199254740993">> THEN <<"9007199254740992">>
    ELSE lit

\* json.Unmarshal of one value into interface{}
DecodeValue(val) ==
    IF val.k = "num" THEN JNum(Float64Text(val.v))
    ELSE IF val.k = "obj" THEN JObj(Float64Text(val.v))
    ELSE val

KeysOf(doc) == { doc[i][1] : i \in 1..Len(doc) }

\* the value of the last member named key
LastValue(doc, key) ==
    doc[CHOOSE i \in 1..Len(doc) :
            doc[i][1] = key /\ \A j \in (i + 1)..Len(doc) : doc[j][1] # key][2]

\* json.Unmarshal(data, &allData): every key, a repeated key keeps its last value
DecodeMap(doc) == [key \in KeysOf(doc) |-> DecodeValue(LastValue(doc, key))]

\* the fields of UpdateInfo and their json tags
Fields == {"Version", "LastUpdated", "DownloadURL", "Slug", "Homepage", "Sections"}
OmitEmpty == {"Slug", "Homepage", "Sections"}
TagOf(field) ==
    CASE field = "Version" -> "version"
      [] field = "LastUpdated" -> "last_updated"
      [] field = "DownloadURL" -> "download_url"
      [] field = "Slug" -> "slug"
      [] field = "Homepage" -> "homepage"
      [] field = "Sections" -> "sections"
Tags == { TagOf(f) : f \in Fields }

\* the field a key decodes into: its tag, or a key that differs from the tag
\* only in the case of its letters; "" for any other key
FieldOfKey(key) ==
    IF key \in Tags THEN CHOOSE f \in Fields : TagOf(f) = key
    ELSE IF key = "Homepage" THEN "Homepage"
    ELSE ""

\* the kind of JSON value a field accepts
KindOf(field) == IF field = "Sections" THEN "map" ELSE "str"

\* json.Unmarshal(data, &updateInfo), member by member in file order: null
\* leaves the field, a value of the field's kind sets it, another kind is an
\* UnmarshalTypeError, an unknown key is ignored
RECURSIVE DecodeStruct(_, _, _)
DecodeStruct(doc, i, acc) ==
    IF i > Len(doc) THEN acc
    ELSE LET f == FieldOfKey(doc[i][1])
             val == doc[i][2]
         IN  IF f = "" \/ val.k = "null" THEN DecodeStruct(doc, i + 1, acc)
             ELSE IF val.k = KindOf(f)
             THEN DecodeStruct(doc, i + 1, [acc EXCEPT !.ui[f] = val.v])
             ELSE DecodeStruct(doc, i + 1, [acc EXCEPT !.ok = FALSE])

\* lines 1272-1302; io is the file operation that fails, "none" if none does
getUpdateInfo(file, io) ==
    LET typed == DecodeStruct(file.data, 1, [ok |-> TRUE, ui |-> ZeroUpdateInfo])
    IN  IF ~file.exists
        THEN [err |-> "error.update_info_missing", ui |-> ZeroUpdateInfo, all |-> <<>>]
        ELSE IF io = "read"
        THEN [err |-> "error.update_info_read_file", ui |-> ZeroUpdateInfo, all |-> <<>>]
        ELSE IF ~ValidJson(file.data)
        THEN [err |-> "error.update_info_invalid_json", ui |-> ZeroUpdateInfo, all |-> <<>>]
        ELSE IF ~typed.ok
        THEN [err |-> "error.update_info_structure", ui |-> ZeroUpdateInfo, all |-> <<>>]
        ELSE [err |-> "", ui |-> typed.ui, all |-> DecodeMap(file.data)]

\* mutant: the version is set whenever getHigherVersion returns currentVersion
processUpdateInfoNoDifferenceTest(ui, cur, t) ==
    IF getHigherVersion(ui.Version, cur) = cur
    THEN [ui EXCEPT !.Version = cur, !.LastUpdated = FormatNow(t)]
    ELSE ui

\* lines 1304-1315
processUpdateInfo(ui, cur, t) ==
    IF getHigherVersion(ui.Version, cur) = cur /\ ui.Version # cur
    THEN [ui EXCEPT !.Version = cur, !.LastUpdated = FormatNow(t)]
    ELSE ui

\* lines 1320-1327: json.Marshal(updateInfo) read back into a map; a field
\* tagged omitempty is left out when it holds its empty value
StructAsMap(ui) ==
    [key \in { TagOf(f) : f \in { g \in Fields : g \notin OmitEmpty \/ ui[g] # <<>> } } |->
        LET f == FieldOfKey(key)
        IN  IF KindOf(f) = "map" THEN JMap(ui[f]) ELSE JStr(ui[f])]

\* mutant: only the fields of the struct are written
MergeStructOnly(all, structAsMap) == structAsMap

\* lines 1331-1333: for key, value := range structAsMap { allData[key] = value }
Merge(all, structAsMap) ==
    [key \in (DOMAIN all) \cup (DOMAIN structAsMap) |->
        IF key \in DOMAIN structAsMap THEN structAsMap[key] ELSE all[key]]

\* byte order of the keys, in which the encoder writes a map
KeyOrder == <<"Homepage", "download_url", "homepage", "last_updated", "sections",
              "slug", "version", "x">>

\* lines 1252-1261: json.Encoder over the map: members in key order
marshalWithoutHTMLescaping(all) ==
    LET keys == SelectSeq(KeyOrder, LAMBDA key : key \in DOMAIN all)
    IN  [i \in 1..Len(keys) |-> <<keys[i], all[keys[i]]>>]

\* lines 1317-1356: the open map after the merge, the file and its backup
\* after rename and write, the error returned
setUpdateInfo(ui, all, file, bak, io) ==
    LET merged == Merge(all, StructAsMap(ui))
        out == BackupAndWrite(file, bak, file.exists /\ io # "rename", io # "write",
                              marshalWithoutHTMLescaping(merged))
    IN  [all |-> merged, file |-> out.file, bak |-> out.bak,
         err |-> IF out.err = "rename" THEN "error.backup_create"
                 ELSE IF out.err = "write" THEN "error.update_info_write_file"
                 ELSE ""]

(***************************************************************************)
(* The operations on update_info.json as steps                             *)
(***************************************************************************)
getUpdateInfoAt(here, next, failed) ==
    /\ pc = here
    /\ \E io \in {"read", "none"} :
         \E got \in { getUpdateInfo(fs.ui, io) } :
            /\ err' = got.err
            /\ updateInfo' = got.ui
            /\ allData' = got.all
            /\ pc' = IF got.err = "" THEN next ELSE failed
    /\ UNCHANGED <<environment, v1, v2, hv, fs, clock, currentVersion, given>>

processUpdateInfoAt(here, next) ==
    /\ pc = here
    /\ updateInfo' = processUpdateInfo(updateInfo, currentVersion, clock)
    /\ clock' = IF updateInfo' # updateInfo THEN Tick(clock) ELSE clock
    /\ err' = ""
    /\ pc' = next
    /\ UNCHANGED <<environment, v1, v2, hv, fs, allData, currentVersion, given>>

setUpdateInfoAt(here, next, failed) ==
    /\ pc = here
    /\ \E io \in {"rename", "write", "none"} :
         \E out \in { setUpdateInfo(updateInfo, allData, fs.ui, fs.uiBak, io) } :
            /\ allData' = out.all
            /\ fs' = [fs EXCEPT !.ui = out.file, !.uiBak = out.bak]
            /\ err' = out.err
            /\ pc' = IF out.err = "" THEN next ELSE failed
    /\ UNCHANGED <<environment, v1, v2, hv, clock, updateInfo, currentVersion, given>>

(***************************************************************************)
(* Source texts the file may hold                                          *)
(***************************************************************************)
DeclaredVersions ==
    { <<"1", ".", "2">>, <<"1", ".", "1", "0">>, <<"1", ".", "2", ".", "3">> }

VersionLine(style, v) ==
    IF v = <<>> THEN <<>>
    ELSE IF style = "block" THEN <<"\n", "*", KwVersion>> \o v
    ELSE <<"\n", KwLine, KwVersion>> \o v

LastUpdateLine(style, d) ==
    IF d = <<>> THEN <<>>
    ELSE IF style = "block" THEN <<"\n", "*", KwLastUpdate>> \o d
    ELSE <<"\n", KwLine, KwLastUpdate>> \o d

HeaderBlock(style, v, d) ==
    IF style = "block"
    THEN <<"\n", KwBlock>> \o VersionLine(style, v) \o LastUpdateLine(style, d)
           \o <<"\n", "*/">>
    ELSE VersionLine(style, v) \o LastUpdateLine(style, d)

ClassBlock(v) ==
    IF v = <<>> THEN <<>> ELSE <<"\n", KwClass>> \o v \o <<KwQuote, ";">>

DefineBlock(v) ==
    IF v = <<>> THEN <<>> ELSE <<"\n", KwDefine>> \o v \o <<KwQuote, KwParen, ";">>

PucBlock(url, slug) ==
    <<"\n", KwPuc>> \o url \o <<KwPucMid>> \o slug \o <<KwQuote, KwParen, ";">>

\* s://e/u/p-v1.0.zip
OldZipURL ==
    <<"s", ":", "/", "/", "e", "/", "u", "/", "p", "-", "v", "1", ".", "0", ".", "z", "i", "p">>
\* s://p.zip/p.zip: the file name also occurs earlier in the URL
TwiceNamedURL ==
    <<"s", ":", "/", "/", "p", ".", "z", "i", "p", "/", "p", ".", "z", "i", "p">>
\* the URL literal of the registration call before the run: s://o/info.json
OldPucURL == <<"s", ":", "/", "/", "o", "/", "info.json">>
OldSlug == <<"o", "s">>
NewSlug == <<"n", "s">>

PucChoices == {"none", "empty_url", "last", "first"}
Orders == { <<"h", "c", "d">>, <<"h", "d", "c">>, <<"c", "h", "d">>,
            <<"c", "d", "h">>, <<"d", "h", "c">>, <<"d", "c", "h">> }

PartOf(which, style, cv, kv, dv, lu) ==
    IF which = "h" THEN HeaderBlock(style, cv, lu)
    ELSE IF which = "c" THEN ClassBlock(kv)
    ELSE DefineBlock(dv)

SourceText(order, style, cv, kv, dv, lu, puc) ==
    <<"<?php">>
      \o (IF puc = "first" THEN PucBlock(OldPucURL, OldSlug) ELSE <<>>)
      \o PartOf(order[1], style, cv, kv, dv, lu)
      \o PartOf(order[2], style, cv, kv, dv, lu)
      \o PartOf(order[3], style, cv, kv, dv, lu)
      \o (IF puc = "last" THEN PucBlock(OldPucURL, OldSlug)
          ELSE IF puc = "empty_url" THEN PucBlock(<<>>, OldSlug) ELSE <<>>)

Given(order, style, cv, kv, dv, lu, puc) ==
    [text |-> SourceText(order, style, cv, kv, dv, lu, puc),
     comment |-> cv, class |-> kv, define |-> dv, puc |-> puc, doc |-> <<>>]

(***************************************************************************)
(* Specification of processMainPHPFile alone, as its test calls it         *)
(***************************************************************************)
InitPhp ==
    /\ pc = "php"
    /\ v1 = <<>> /\ v2 = <<>> /\ hv = <<>>
    /\ \E order \in Orders, style \in {"block", "line"},
          cv \in DeclaredVersions \cup {<<>>},
          kv \in DeclaredVersions \cup {<<>>},
          dv \in DeclaredVersions \cup {<<>>},
          lu \in {<<>>, <<"d0">>}, puc \in PucChoices :
         given = Given(order, style, cv, kv, dv, lu, puc)
    /\ fs = [php |-> File(given.text), phpBak |-> NoFile, ui |-> NoFile, uiBak |-> NoFile, zip |-> NoZip]
    /\ clock = "d1"
    /\ \E ds \in { <<OldZipURL, NewSlug>>, <<OldZipURL, <<>> >>, <<TwiceNamedURL, NewSlug>> } :
         updateInfo = [ZeroUpdateInfo EXCEPT !.DownloadURL = ds[1], !.Slug = ds[2]]
    /\ allData = <<>>
    /\ currentVersion = <<>>
    /\ err = ""
    /\ OthersIdle

TestProcessMainPHPFile ==
    processMainPHPFileAt("php", "php_done", "php_failed") /\ UNCHANGED run

NextPhp == TestProcessMainPHPFile

SpecPhp == InitPhp /\ [][NextPhp]_vars

(***************************************************************************)
(* Specification of the metadata store alone, as its tests call it:        *)
(* getUpdateInfo, processUpdateInfo, changes to the typed view by the      *)
(* caller, setUpdateInfo                                                    *)
(***************************************************************************)
Version120 == <<"1", ".", "2", ".", "0">>
MetaVersions == DeclaredVersions \cup {Version120}
OldTimestamp == <<"d0", KwHourMin, KwSec>>

\* no version, "version": 1.0 (a number), or "version": "<v>"
VersionMembers ==
    { <<>>, << <<"version", JNum(<<"1", ".", "0">>)>> >> }
      \cup { << <<"version", JStr(v)>> >> : v \in MetaVersions }

SlugMember(slug) == IF slug = <<>> THEN <<>> ELSE << <<"slug", JStr(slug)>> >>

\* "lower": "homepage":"h"; "null": "homepage":null; "both": "homepage":"h" followed by "Homepage":""
HomepageMember(hp) ==
    IF hp = "none" THEN <<>>
    ELSE IF hp = "lower" THEN << <<"homepage", JStr(<<"h">>)>> >>
    ELSE IF hp = "null" THEN << <<"homepage", JNull>> >>
    ELSE << <<"homepage", JStr(<<"h">>)>>, <<"Homepage", JStr(<<>>)>> >>

\* a key that is no field: {"y": 1.0}, 9007199254740993, "s"
UnknownMember(x) ==
    IF x = "none" THEN <<>>
    ELSE IF x = "obj" THEN << <<"x", JObj(<<"1", ".", "0">>)>> >>
    ELSE IF x = "num" THEN << <<"x", JNum(<<"9007199254740993">>)>> >>
    ELSE << <<"x", JStr(<<"s">>)>> >>

Descriptor(ver, url, slug, hp, x) ==
    ver
      \o << <<"last_updated", JStr(OldTimestamp)>>, <<"download_url", JStr(url)>> >>
      \o SlugMember(slug) \o HomepageMember(hp) \o UnknownMember(x)

Descriptors ==
    { Descriptor(ver, OldZipURL, slug, hp, x) :
        ver \in VersionMembers, slug \in {<<>>, OldSlug},
        hp \in {"none", "lower", "null", "both"}, x \in {"none", "obj", "num", "str"} }

InitMeta ==
    /\ pc = "t_getUpdateInfo"
    /\ v1 = <<>> /\ v2 = <<>> /\ hv = <<>>
    /\ \E file \in {NoFile, File(GarbageDoc)} \cup { File(d) : d \in Descriptors } :
         /\ fs = [php |-> NoFile, phpBak |-> NoFile, ui |-> file, uiBak |-> NoFile, zip |-> NoZip]
         /\ given = [text |-> <<>>, comment |-> <<>>, class |-> <<>>, define |-> <<>>,
                     puc |-> "none", doc |-> file.data]
    /\ clock = "d1"
    /\ updateInfo = ZeroUpdateInfo
    /\ allData = <<>>
    /\ currentVersion \in MetaVersions
    /\ err = ""
    /\ OthersIdle

TestGetUpdateInfo ==
    getUpdateInfoAt("t_getUpdateInfo", "t_processUpdateInfo", "t_failed") /\ UNCHANGED run

TestProcessUpdateInfo ==
    processUpdateInfoAt("t_processUpdateInfo", "t_edit") /\ UNCHANGED run

\* the caller assigns to a field of *updateInfo between load and persist
EditValues == { <<>>, <<"z">> }
EditTypedView ==
    /\ pc = "t_edit"
    /\ \E f \in Fields \ {"Sections", "LastUpdated"} :
         \E val \in {updateInfo[f]} \cup EditValues :
            updateInfo' = [updateInfo EXCEPT ![f] = val]
    /\ pc' = "t_setUpdateInfo"
    /\ UNCHANGED <<others, v1, v2, hv, fs, clock, allData, currentVersion, err, given>>

TestSetUpdateInfo ==
    setUpdateInfoAt("t_setUpdateInfo", "t_done", "t_failed") /\ UNCHANGED run

NextMeta ==
    \/ TestGetUpdateInfo
    \/ TestProcessUpdateInfo
    \/ EditTypedView
    \/ TestSetUpdateInfo

SpecMeta == InitMeta /\ [][NextMeta]_vars

(***************************************************************************)
(* main: the run from start to exit                                        *)
(***************************************************************************)
DotZip == <<".", "z", "i", "p">>

\* -v?[0-9.]*\.zip$ : the offsets at which a match that reaches the end starts
ZipSuffixStarts(name) ==
    LET Rest(j) ==
            /\ Len(name) - j >= Len(DotZip)
            /\ Slice(name, Len(name) - Len(DotZip), Len(name)) = DotZip
            /\ \A k \in j..(Len(name) - Len(DotZip) - 1) : At(name, k) \in Digits \cup {"."}
    IN  { i \in Offsets(name) :
            At(name, i) = "-" /\ Rest(IF At(name, i + 1) = "v" THEN i + 2 ELSE i + 1) }

\* re.ReplaceAllString(name, ""): the leftmost match is cut off
StripZipSuffix(name) ==
    LET Cut(starts) == IF starts = {} THEN name ELSE Slice(name, 0, MinOf(starts))
    IN  Cut(ZipSuffixStarts(name))

\* lines 995-1004: the base name of the archive from the download URL
RemoteZIPName2(downloadURL) ==
    LET Again(name2) ==
            IF ZipSuffixStarts(name2) # {} THEN TrimSuffix(name2, DotZip) ELSE name2
    IN  Again(StripZipSuffix(Base(downloadURL)))

\* line 1006: fmt.Sprintf("%s-v%s.zip", remoteZIPName2, currentVersion)
ZipFileName(downloadURL, version) ==
    RemoteZIPName2(downloadURL) \o <<"-", "v">> \o version \o DotZip

\* lines 1952-1968: the changelog text as HTML (one line of text)
ChangelogText == <<"c">>
ChangelogHtml(text) == <<"<p>">> \o text \o <<"</p>">>

\* lines 920-950: working directory, update.config and its loading
\* main after a failure of a stage it cannot go on without: os.Exit(1)
ContinueAnyway(e, next) == next

\* lines 929, 934, 939, 949, 957, 968, 977, 1011 and 1019
ExitOnError(e, next) == IF e = "" THEN next ELSE "exit1"

\* main leaving after a failure that it only has to report
ExitAfterFailure(e, next) == IF e = "" THEN next ELSE "exit1"

\* lines 982, 991, 1029 and 1038: the failure is logged and the run goes on
LogAndContinue(e, next) == next

\* main gets err' back from a stage: an error is logged and printed; a panic
\* unwinds main, which runs the deferred logFile.Close(), and the runtime
\* writes the panic to the standard error
MainReturned(stage) ==
    run' = IF err' = "panic"
           THEN [Printf(Returned(run, stage, err'), err') EXCEPT !.logFile = "closed"]
           ELSE IF err' = "" THEN Returned(run, stage, "")
           ELSE logAndPrint(Returned(run, stage, err'), err')

\* lines 920-950: what main does before it reads the metadata, in order
StartupStages == <<"workDir", "configFile", "initLogging", "LoadConfig">>

\* the stage that fails and the message: os.Getwd or os.Stat on the working
\* directory, os.Stat on update.config, os.OpenFile on update.log, LoadConfig
StartupOutcomes ==
    { [stage |-> 1, err |-> "error.current_directory"],
      [stage |-> 1, err |-> "error.no_directory"],
      [stage |-> 2, err |-> "error.no_config"],
      [stage |-> 3, err |-> "error.log_file"],
      [stage |-> 4, err |-> "error.config_read"],
      [stage |-> 4, err |-> ""] }

\* lines 920-950: the three checks print with fmt.Printf; the log is open
\* from initLogging on, and only LoadConfig reports with logAndPrint
Startup ==
    /\ pc = "start"
    /\ \E o \in StartupOutcomes :
         /\ err' = o.err
         /\ pc' = ExitOnError(o.err, "getUpdateInfo")
         /\ \E opened \in { [run EXCEPT
                               !.stages = [i \in 1..o.stage |->
                                             [name |-> StartupStages[i],
                                              err |-> IF i = o.stage THEN o.err ELSE ""]],
                               !.logFile = IF o.stage = 4 THEN "open" ELSE "none"] } :
              run' = IF o.err = "" THEN opened
                     ELSE IF o.stage = 4 THEN logAndPrint(opened, o.err)
                     ELSE Printf(opened, o.err)
    /\ UNCHANGED <<environment, v1, v2, hv, fs, clock, updateInfo, allData, currentVersion,
                   given>>

\* lines 952-958
MainGetUpdateInfo ==
    /\ getUpdateInfoAt("getUpdateInfo", "processMainPHPFile", "exit1")
    /\ MainReturned("getUpdateInfo")

\* lines 964-969
MainProcessMainPHPFile ==
    /\ processMainPHPFileAt("processMainPHPFile", "processUpdateInfo", "exit1")
    /\ MainReturned("processMainPHPFile")

\* lines 973-978
MainProcessUpdateInfo ==
    /\ processUpdateInfoAt("processUpdateInfo", "processChangelog")
    /\ MainReturned("processUpdateInfo")

\* lines 980-987: a failure is logged and the run goes on; a text that is
\* not empty goes into the sections of the typed view
MainProcessChangelog ==
    /\ pc = "processChangelog"
    /\ \E outcome \in {"failed", "empty", "text"} :
         /\ err' = IF outcome = "failed" THEN "error.changelog_write" ELSE ""
         /\ updateInfo' = IF outcome = "text"
                          THEN [updateInfo EXCEPT !.Sections = ChangelogHtml(ChangelogText)]
                          ELSE updateInfo
    /\ pc' = LogAndContinue(err', "processSVGFiles")
    /\ MainReturned("processChangelog")
    /\ UNCHANGED <<environment, v1, v2, hv, fs, clock, allData, currentVersion, given>>

\* lines 989-994: a failure is logged and the run goes on
MainProcessSVGFiles ==
    /\ pc = "processSVGFiles"
    /\ \E e \in {"", "error.svg_convert"} : err' = e
    /\ pc' = LogAndContinue(err', "createZipFile")
    /\ MainReturned("processSVGFiles")
    /\ UNCHANGED <<environment, v1, v2, hv, fs, clock, updateInfo, allData, currentVersion,
                   given>>

\* line 1013: the download URL with the name of the old archive left in place
KeepDownloadURL(downloadURL, zipFileName) == downloadURL

\* line 1013
DownloadURLOfArchive(downloadURL, zipFileName) ==
    TrimSuffix(downloadURL, Base(downloadURL)) \o zipFileName

\* lines 995-1014: the slug when there is none, the name of the archive,
\* createZipFile, and the download URL brought to the new archive
MainCreateZipFile ==
    /\ pc = "createZipFile"
    /\ \E zipFileName \in { ZipFileName(updateInfo.DownloadURL, currentVersion) },
          slug \in { IF updateInfo.Slug = <<>>
                     THEN StripZipSuffix(Base(updateInfo.DownloadURL))
                     ELSE updateInfo.Slug },
          readdir \in {ReadDirOrder} :
         \E walked \in { WalkTree(WorkDir(tree, fs), config.SkipPattern, slug, readdir) } :
          \E io \in ZipOutcomes(walked) :
           \E made \in { createZipFile(walked, zipFileName, slug, io, fs.zip) } :
            /\ fs' = [fs EXCEPT !.zip = made.zip]
            /\ updateInfo' =
                 IF made.err = ""
                 THEN [updateInfo EXCEPT
                         !.Slug = slug,
                         !.DownloadURL = DownloadURLOfArchive(updateInfo.DownloadURL,
                                                              zipFileName)]
                 ELSE [updateInfo EXCEPT !.Slug = slug]
            /\ err' = IF made.err = "" THEN "" ELSE "error.zip_creation"
            /\ pc' = ExitOnError(made.err, "setUpdateInfo")
    /\ MainReturned("createZipFile")
    /\ UNCHANGED <<environment, v1, v2, hv, clock, allData, currentVersion, given>>

\* lines 1016-1020
MainSetUpdateInfo ==
    /\ setUpdateInfoAt("setUpdateInfo", "upload", "exit1")
    /\ MainReturned("setUpdateInfo")

\* lines 1024-1026 and 1032-1034: uploadFiles is called when an SSH host and
\* an SSH user are configured
MainUploadFiles ==
    /\ pc = "upload"
    /\ pc' = IF config.SSHHost # <<>> /\ config.SSHUser # <<>>
             THEN "uploadFiles" ELSE "handleGitHubIntegration"
    /\ err' = ""
    /\ UNCHANGED <<others, v1, v2, hv, fs, clock, updateInfo, allData, currentVersion, given>>

\* lines 1027-1031: uploadFiles has returned; a failure is logged and the
\* run goes on
MainUploadFilesReturned ==
    /\ pc \in {"uploaded", "uploadFailed"}
    /\ err' = IF pc = "uploadFailed" THEN "error.upload" ELSE ""
    /\ pc' = LogAndContinue(err', "handleGitHubIntegration")
    /\ MainReturned("uploadFiles")
    /\ UNCHANGED <<environment, v1, v2, hv, fs, clock, updateInfo, allData, currentVersion,
                   given>>

\* lines 1036-1042: a failure is logged, the completion is reported and main
\* returns, which runs the deferred logFile.Close()
MainHandleGitHubIntegration ==
    /\ pc = "handleGitHubIntegration"
    /\ \E e \in {"", "error.github_check"} : err' = e
    /\ pc' = LogAndContinue(err', "done")
    /\ \E r \in { IF err' = "" THEN Returned(run, "handleGitHubIntegration", "")
                  ELSE logAndPrint(Returned(run, "handleGitHubIntegration", err'), err') } :
         run' = IF pc' = "done"
                THEN [logAndPrint(r, "app.release_process_completed")
                        EXCEPT !.logFile = "closed"]
                ELSE r
    /\ UNCHANGED <<environment, v1, v2, hv, fs, clock, updateInfo, allData, currentVersion,
                   given>>

(***************************************************************************)
(* createZipFile alone, on trees of directories and regular files          *)
(***************************************************************************)
TestSlug == <<"s", "l", "u", "g">>
TestZipName == <<"o", "u", "t", ".", "z", "i", "p">>

\* what a working directory may hold
Candidates ==
    { RegularFile(<<ATxt>>, <<"A">>), RegularFile(<<BLog>>, <<"B">>),
      RegularFile(<<NestedX>>, <<"X">>),
      Directory(<<UpdatesDir>>), RegularFile(<<UpdatesDir, ATxt>>, <<"I">>),
      Directory(<<NestedDir>>), RegularFile(<<NestedDir, ThumbsDb>>, <<"T">>),
      RegularFile(<<NestedDir, ATxt>>, <<"N">>) }

\* every entry but those at the top lies in a directory of the tree
Trees ==
    { nodes \in SUBSET Candidates :
        \A n \in nodes :
          Len(n.path) > 1 =>
            \E d \in nodes : d.dir /\ d.path = SubSeq(n.path, 1, Len(n.path) - 1) }

Reverse(s) == [i \in 1..Len(s) |-> s[Len(s) + 1 - i]]

ReadDirOrders == {ReadDirOrder, Reverse(ReadDirOrder)}

\* config.SkipPattern: none, the pattern of the test, a directory, and a
\* malformed pattern before one for a single byte
SkipPatternChoices ==
    { <<>>,
      << <<"*", ".", "l", "o", "g">> >>,
      << NestedDir >>,
      << <<"[">>, <<"?", ".", "t", "x", "t">> >> }

InitZip ==
    /\ pc = "createZipFile"
    /\ v1 = <<>> /\ v2 = <<>> /\ hv = <<>>
    /\ fs = [php |-> NoFile, phpBak |-> NoFile, ui |-> NoFile, uiBak |-> NoFile, zip |-> NoZip]
    /\ given = [text |-> <<>>, comment |-> <<>>, class |-> <<>>, define |-> <<>>,
                puc |-> "none", doc |-> <<>>]
    /\ clock = "d1"
    /\ updateInfo = [ZeroUpdateInfo EXCEPT !.Slug = TestSlug]
    /\ allData = <<>>
    /\ currentVersion = <<>>
    /\ err = ""
    /\ prior = NoPrior
    /\ \E host \in {"unix", "windows"}, nodes \in Trees : tree = [host |-> host, nodes |-> nodes]
    /\ \E patterns \in SkipPatternChoices : config = [ZeroConfig EXCEPT !.SkipPattern = patterns]
    /\ ssh = NoSsh
    /\ run = NoRun

\* part_003 lines 116-161: createZipFile on the tree
TestShouldSkipAndZipCreation ==
    /\ pc = "createZipFile"
    /\ \E readdir \in ReadDirOrders :
         \E walked \in { WalkTree(tree, config.SkipPattern, updateInfo.Slug, readdir) } :
          \E io \in ZipOutcomes(walked) :
           \E made \in { createZipFile(walked, TestZipName, updateInfo.Slug, io, fs.zip) } :
              /\ fs' = [fs EXCEPT !.zip = made.zip]
              /\ err' = made.err
    /\ pc' = "created"
    /\ UNCHANGED <<v1, v2, hv, clock, updateInfo, allData, currentVersion, given,
                   prior, tree, config, ssh, run>>

\* createZipFile called again on the same tree
CreateZipFileAgain ==
    /\ pc = "created"
    /\ prior.run < MaxRuns
    /\ prior' = [prior EXCEPT !.run = @ + 1, !.zip = fs.zip]
    /\ pc' = "createZipFile"
    /\ err' = ""
    /\ UNCHANGED <<v1, v2, hv, fs, clock, updateInfo, allData, currentVersion, given,
                   tree, config, ssh, run>>

NextZip == TestShouldSkipAndZipCreation \/ CreateZipFileAgain

SpecZip == InitZip /\ [][NextZip]_vars

(***************************************************************************)
(* uploadFiles alone                                                       *)
(***************************************************************************)
\* the remote clock when a transfer writes the file: later than every
\* modification time there is before
TransferTime == 3

ModTimes == {1, 2}

\* lines 1470-1495: the credentials; without a method no connection is tried
UploadFilesAuth ==
    /\ pc = "uploadFiles"
    /\ \E methods \in { AuthMethods(config, ssh.key) } :
         /\ ssh' = [ssh EXCEPT !.authMethods = methods]
         /\ err' = IF methods = <<>> THEN "error.ssh_no_auth" ELSE ""
         /\ pc' = IF methods = <<>> THEN "uploadFailed" ELSE "dial"
    /\ UNCHANGED <<v1, v2, hv, fs, clock, updateInfo, allData, currentVersion, given,
                   prior, tree, config, run>>

\* lines 1505-1518: ssh.Dial
UploadFilesDial ==
    /\ pc = "dial"
    /\ \E ok \in BOOLEAN :
         /\ ssh' = [ssh EXCEPT !.dials = @ + 1, !.client = IF ok THEN "open" ELSE "none"]
         /\ err' = IF ok THEN "" ELSE "error.ssh_connection"
         /\ pc' = IF ok THEN "parseRemotePath" ELSE "uploadFailed"
    /\ UNCHANGED <<v1, v2, hv, fs, clock, updateInfo, allData, currentVersion, given,
                   prior, tree, config, run>>

\* lines 1520-1524: the remote directory from the download URL
UploadFilesParseRemotePath ==
    /\ pc = "parseRemotePath"
    /\ \E r \in { parseRemotePath(updateInfo.DownloadURL, config.SSHDirBase) } :
         /\ ssh' = [ssh EXCEPT !.remoteLocalPath = r.path,
                               !.client = IF r.err = "" THEN @ ELSE "closed"]
         /\ err' = r.err
         /\ pc' = IF r.err = "" THEN "createRemoteDir" ELSE "uploadFailed"
    /\ UNCHANGED <<v1, v2, hv, fs, clock, updateInfo, allData, currentVersion, given,
                   prior, tree, config, run>>

\* lines 1528-1532 and 1613-1628: a failure is logged and the upload goes on
UploadFilesCreateRemoteDir ==
    /\ pc = "createRemoteDir"
    /\ \E outcome \in {"ok", "failed"} : ssh' = [ssh EXCEPT !.mkdir = outcome]
    /\ err' = ""
    /\ pc' = "uploadZip"
    /\ UNCHANGED <<v1, v2, hv, fs, clock, updateInfo, allData, currentVersion, given,
                   prior, tree, config, run>>

\* uploadFiles going on to the next file after a transfer that failed
NextFileAnyway(e, next) == next

\* lines 1535-1537, 1541-1543, 1555-1557 and 1573-1575: uploadFiles returns
\* the error of a transfer
ReturnOnError(e, next) == IF e = "" THEN next ELSE "uploadFailed"

\* the step of a transfer that fails, "none" when none does
TransferFailures == { TransferSteps[i] : i \in 1..Len(TransferSteps) }

\* one call of uploadFileViaSFTP from uploadFiles, which returns on its error
UploadFileAt(here, next, which, local, failure, answers, failures) ==
    /\ pc = here
    /\ \E answer \in answers, io \in failures :
         \E r \in { uploadFileViaSFTP(local, ssh.remote[which], answer, io, TransferTime) } :
            /\ ssh' = [ssh EXCEPT
                         !.remote[which] = r.remote,
                         !.calls = Append(@, [file |-> which, probe |-> r.probe,
                                              err |-> r.err, wrote |-> r.wrote,
                                              steps |-> r.steps]),
                         !.client = IF r.err = "" THEN @ ELSE "closed"]
            /\ err' = IF r.err = "" THEN "" ELSE failure
            /\ pc' = ReturnOnError(r.err, next)
    /\ UNCHANGED <<v1, v2, hv, fs, clock, updateInfo, allData, currentVersion, given,
                   prior, tree, config, run>>

\* lines 1533-1537: the archive
UploadFilesZip ==
    UploadFileAt("uploadZip", "uploadInfo", "zip",
                 [exists |-> fs.zip.exists, modTime |-> ssh.localModTime.zip,
                  data |-> fs.zip.entries],
                 "error.zip_upload", ProbeAnswers, TransferFailures)

\* lines 1539-1543: update_info.json
UploadFilesInfo ==
    UploadFileAt("uploadInfo", "uploadBanners", "info",
                 [exists |-> fs.ui.exists, modTime |-> ssh.localModTime.info,
                  data |-> fs.ui.data],
                 "error.update_info_upload", ProbeAnswers, TransferFailures)

\* the file in Updates/ that an image URL names: filepath.Base of the URL
LocalImage(t, rawURL) ==
    LET Found(nodes) ==
            IF nodes = {} THEN NoFile ELSE File((CHOOSE n \in nodes : TRUE).data)
    IN  Found({ n \in t.nodes :
                  ~n.dir /\ n.path = <<UpdatesDir, FilepathBase(t.host, rawURL)>> })

\* what the remote host and the transfer do for an image: the probe reports
\* what it finds, and the transfer succeeds or fails at the start of the
\* remote command
ImageProbeAnswers == {"stat"}
ImageTransferFailures == {"start", "none"}

\* an entry without a local file stops the loop
ImageNotFoundReturns(here) == "uploadFailed"

\* lines 1550-1551 and 1568-1569: the entry is logged and the loop goes on
ImageNotFound(here) == here

\* lines 1546-1565 and 1566-1585: one pass of the loop over the banners or
\* the icons, which range visits in any order, or the end of the loop; an
\* entry whose URL does not parse or whose file is not in Updates/ is logged
\* and passed over, the file of any other is transferred
UploadImagesAt(here, next, kind, entries, failure) ==
    /\ pc = here
    /\ \E todo \in { { e \in entries : [kind |-> kind, key |-> e.key] \notin ssh.visited } } :
         IF todo = {}
         THEN /\ pc' = next
              /\ err' = ""
              /\ ssh' = [ssh EXCEPT !.client = IF next = "uploaded" THEN "closed" ELSE @]
         ELSE \E e \in todo :
               \E seen \in { ssh.visited \cup {[kind |-> kind, key |-> e.key]} },
                  local \in { LocalImage(tree, e.url) } :
                 IF ParseURL(e.url).err # ""
                 THEN /\ ssh' = [ssh EXCEPT
                                   !.visited = seen,
                                   !.warnings = @ \cup {[kind |-> kind, key |-> e.key,
                                                         what |-> "no_url"]}]
                      /\ err' = ""
                      /\ pc' = here
                 ELSE IF ~local.exists
                 THEN /\ ssh' = [ssh EXCEPT
                                   !.visited = seen,
                                   !.warnings = @ \cup {[kind |-> kind, key |-> e.key,
                                                         what |-> "not_found"]},
                                   !.client = IF ImageNotFound(here) = here
                                              THEN @ ELSE "closed"]
                      /\ err' = IF ImageNotFound(here) = here THEN "" ELSE failure
                      /\ pc' = ImageNotFound(here)
                 ELSE \E answer \in ImageProbeAnswers, io \in ImageTransferFailures :
                        \E r \in { uploadFileViaSFTP(
                                     [exists |-> TRUE, modTime |-> ssh.localModTime[kind],
                                      data |-> local.data],
                                     ssh.remote[kind], answer, io, TransferTime) } :
                          /\ ssh' = [ssh EXCEPT
                                       !.visited = seen,
                                       !.remote[kind] = r.remote,
                                       !.calls = Append(@, [file |-> kind, probe |-> r.probe,
                                                            err |-> r.err, wrote |-> r.wrote,
                                                            steps |-> r.steps]),
                                       !.client = IF r.err = "" THEN @ ELSE "closed"]
                          /\ err' = IF r.err = "" THEN "" ELSE failure
                          /\ pc' = ReturnOnError(r.err, here)
    /\ UNCHANGED <<v1, v2, hv, fs, clock, updateInfo, allData, currentVersion, given,
                   prior, tree, config, run>>

\* lines 1546-1565
UploadFilesBanners ==
    UploadImagesAt("uploadBanners", "uploadIcons", "banner", updateInfo.Banners,
                   "error.banner_upload")

\* lines 1566-1587
UploadFilesIcons ==
    UploadImagesAt("uploadIcons", "uploaded", "icon", updateInfo.Icons, "error.icon_upload")

\* s://e/a/b/f.zip and s://e/f.zip, as in TestParseRemotePath
FileInDirsURL ==
    <<"s", ":", "/", "/", "e", "/", "a", "/", "b", "/", "f", ".", "z", "i", "p">>
FileAtTopURL == <<"s", ":", "/", "/", "e", "/", "f", ".", "z", "i", "p">>
\* s://e/a/f.zip?q=/x#y/ : a query and a fragment after the file name
QueryAndFragmentURL ==
    <<"s", ":", "/", "/", "e", "/", "a", "/", "f", ".", "z", "i", "p", "?", "q", "=", "/",
      "x", "#", "y", "/">>
\* s://e/a/b/ : ends in a directory
DirectoryURL == <<"s", ":", "/", "/", "e", "/", "a", "/", "b", "/">>
\* s://e : no path at all
NoPathURL == <<"s", ":", "/", "/", "e">>
\* s://:// : the URL of the test that has to fail
ColonHostURL == <<"s", ":", "/", "/", ":", "/", "/">>
\* s://e:x/f.zip : a port that is no number
BadPortURL == <<"s", ":", "/", "/", "e", ":", "x", "/", "f", ".", "z", "i", "p">>
\* ://e/f.zip : no scheme before the colon
NoSchemeURL == <<":", "/", "/", "e", "/", "f", ".", "z", "i", "p">>

UploadURLs ==
    {FileInDirsURL, FileAtTopURL, QueryAndFragmentURL, DirectoryURL, NoPathURL,
     ColonHostURL, BadPortURL, NoSchemeURL}

\* /w, /w/ and no base directory
BaseDirs == { <<"/", "w">>, <<"/", "w", "/">>, <<>> }

\* the key file and what reading and parsing it gives
KeyFiles ==
    { [file |-> <<>>, key |-> "unreadable"], [file |-> <<"k">>, key |-> "unreadable"],
      [file |-> <<"k">>, key |-> "unparseable"], [file |-> <<"k">>, key |-> "valid"] }

\* the remote copy of a file: none, or one with the bytes of an older release
RemoteCopies == {NoRemoteFile} \cup { RemoteFile(t, <<>>) : t \in ModTimes }

\* the banners and icons of the descriptor: none, or banners with a file in
\* Updates/ (s://e/b.png), with a URL that does not parse (s://e:x/c.png) and
\* without a file (s://e/m.png), and icons with a file (s://e/i.png) and
\* without one
BannerPng == <<"b", ".", "p", "n", "g">>
IconPng == <<"i", ".", "p", "n", "g">>
ImageURL(name) == <<"s", ":", "/", "/", "e", "/">> \o name
UploadImages ==
    { [Banners |-> {}, Icons |-> {}],
      [Banners |-> { [key |-> "low", url |-> ImageURL(BannerPng)],
                     [key |-> "high",
                      url |-> <<"s", ":", "/", "/", "e", ":", "x", "/", "c", ".", "p", "n", "g">>],
                     [key |-> "wide", url |-> ImageURL(<<"m", ".", "p", "n", "g">>)] },
       Icons |-> { [key |-> "1x", url |-> ImageURL(IconPng)],
                   [key |-> "2x", url |-> ImageURL(<<"m", ".", "p", "n", "g">>)] }] }

\* the tree of the test with the two images in Updates/
UploadTree ==
    [TestTree EXCEPT !.nodes = @ \cup { RegularFile(<<UpdatesDir, BannerPng>>, <<"N">>),
                                        RegularFile(<<UpdatesDir, IconPng>>, <<"C">>) }]

InitUpload ==
    /\ pc = "uploadFiles"
    /\ v1 = <<>> /\ v2 = <<>> /\ hv = <<>>
    /\ fs = [php |-> NoFile, phpBak |-> NoFile, uiBak |-> NoFile,
             ui |-> File(<< <<"version", JStr(Version120)>> >>),
             zip |-> Zip(<<"f", ".", "z", "i", "p">>, TestSlug, TRUE,
                         << [name |-> EntryName("unix", TestSlug, ATxt), data |-> <<"A">>] >>)]
    /\ given = [text |-> <<>>, comment |-> <<>>, class |-> <<>>, define |-> <<>>,
                puc |-> "none", doc |-> <<>>]
    /\ clock = "d1"
    /\ \E url \in UploadURLs, images \in UploadImages :
         updateInfo = [ZeroUpdateInfo EXCEPT !.DownloadURL = url,
                                             !.Banners = images.Banners,
                                             !.Icons = images.Icons]
    /\ allData = <<>>
    /\ currentVersion = <<>>
    /\ err = ""
    /\ prior = NoPrior
    /\ tree = UploadTree
    /\ \E k \in KeyFiles, password \in {<<>>, <<"p">>}, base \in BaseDirs,
          local \in ModTimes, zip \in RemoteCopies, info \in {NoRemoteFile} :
         /\ config = [ZeroConfig EXCEPT !.SSHHost = <<"h">>, !.SSHUser = <<"u">>,
                                        !.SSHKeyFile = k.file, !.SSHPassword = password,
                                        !.SSHDirBase = base]
         /\ ssh = [NoSsh EXCEPT !.key = k.key,
                                !.localModTime = [@ EXCEPT !.zip = local, !.info = local],
                                !.remote = [@ EXCEPT !.zip = zip, !.info = info]]
    /\ run = NoRun

NextUpload ==
    \/ UploadFilesAuth
    \/ UploadFilesDial
    \/ UploadFilesParseRemotePath
    \/ UploadFilesCreateRemoteDir
    \/ UploadFilesZip
    \/ UploadFilesInfo
    \/ UploadFilesBanners
    \/ UploadFilesIcons

SpecUpload == InitUpload /\ [][NextUpload]_vars

(***************************************************************************)
(* The run of main                                                         *)
(***************************************************************************)
\* what the remote host and the transfer do in a run of main: the probe
\* reports the file absent, and the transfer succeeds or fails at the wait
\* for the exit status
MainProbeAnswers == {"stat"}
MainTransferFailures == {"wait", "none"}

\* lines 1533-1537 in a run of main
MainUploadFilesZip ==
    UploadFileAt("uploadZip", "uploadInfo", "zip",
                 [exists |-> fs.zip.exists, modTime |-> ssh.localModTime.zip,
                  data |-> fs.zip.entries],
                 "error.zip_upload", MainProbeAnswers, MainTransferFailures)

\* lines 1539-1543 in a run of main
MainUploadFilesInfo ==
    UploadFileAt("uploadInfo", "uploadBanners", "info",
                 [exists |-> fs.ui.exists, modTime |-> ssh.localModTime.info,
                  data |-> fs.ui.data],
                 "error.update_info_upload", MainProbeAnswers, MainTransferFailures)

\* s://e/p.zip: a file name without version
PlainZipURL == <<"s", ":", "/", "/", "e", "/", "p", ".", "z", "i", "p">>

MainTexts ==
    { SourceText(order, "block", cv, kv, dv, <<"d0">>, puc) :
        order \in { <<"h", "c", "d">>, <<"c", "d", "h">> },
        cv \in { <<"1", ".", "2">>, <<>> },
        kv \in { <<"1", ".", "1", "0">>, <<>> },
        dv \in { <<"1", ".", "2">>, <<>> },
        puc \in {"last", "none"} }

MainDescriptors ==
    { Descriptor(ver, url, slug, "none", "obj") :
        ver \in { <<>>, << <<"version", JStr(<<"1", ".", "2">>)>> >>,
                  << <<"version", JStr(<<"1", ".", "1", "0">>)>> >> },
        url \in {OldZipURL, TwiceNamedURL, PlainZipURL},
        slug \in {<<>>, OldSlug} }

\* update.config without SSH data, and with a host, a user, a password and
\* the base directory /w
MainConfigs ==
    { ZeroConfig,
      [ZeroConfig EXCEPT !.SSHHost = <<"h">>, !.SSHUser = <<"u">>, !.SSHPassword = <<"p">>,
                         !.SSHDirBase = <<"/", "w">>] }

Init ==
    /\ pc = "start"
    /\ v1 = <<>> /\ v2 = <<>> /\ hv = <<>>
    /\ \E php \in {NoFile} \cup { File(text) : text \in MainTexts },
          ui \in {NoFile} \cup { File(d) : d \in MainDescriptors } :
         /\ fs = [php |-> php, phpBak |-> NoFile, ui |-> ui, uiBak |-> NoFile, zip |-> NoZip]
         /\ given = [text |-> php.data, comment |-> <<>>, class |-> <<>>, define |-> <<>>,
                     puc |-> "none", doc |-> ui.data]
    /\ clock = "d1"
    /\ updateInfo = ZeroUpdateInfo
    /\ allData = <<>>
    /\ currentVersion = <<>>
    /\ err = ""
    /\ prior = NoPrior
    /\ tree = TestTree
    /\ config \in MainConfigs
    /\ ssh = NoSsh
    /\ run = NoRun

Next ==
    \/ Startup
    \/ MainGetUpdateInfo
    \/ MainProcessMainPHPFile
    \/ MainProcessUpdateInfo
    \/ MainProcessChangelog
    \/ MainProcessSVGFiles
    \/ MainCreateZipFile
    \/ MainSetUpdateInfo
    \/ MainUploadFiles
    \/ UploadFilesAuth
    \/ UploadFilesDial
    \/ UploadFilesParseRemotePath
    \/ UploadFilesCreateRemoteDir
    \/ MainUploadFilesZip
    \/ MainUploadFilesInfo
    \/ UploadFilesBanners
    \/ UploadFilesIcons
    \/ MainUploadFilesReturned
    \/ MainHandleGitHubIntegration

Spec == Init /\ [][Next]_vars

(***************************************************************************)
(* The program run again on the working directory the run before left      *)
(***************************************************************************)
\* a new process: nothing is kept but the files and the remote host; the
\* archive the run will build is newer than the transfers of the run before,
\* update_info.json is as old as it was or, when the run writes it, newer
Rerun ==
    /\ pc = "done"
    /\ prior.run < MaxRuns
    /\ prior' = [run |-> prior.run + 1, version |-> currentVersion,
                 ui |-> fs.ui, uiBak |-> fs.uiBak,
                 Version |-> updateInfo.Version, LastUpdated |-> updateInfo.LastUpdated,
                 zip |-> fs.zip]
    /\ pc' = "start"
    /\ updateInfo' = ZeroUpdateInfo
    /\ allData' = <<>>
    /\ currentVersion' = <<>>
    /\ err' = ""
    /\ run' = NoRun
    /\ \E t \in {ssh.localModTime.info, TransferTime + 1} :
         ssh' = [NoSsh EXCEPT !.remote = ssh.remote,
                              !.localModTime = [ssh.localModTime EXCEPT
                                                  !.zip = TransferTime + 1, !.info = t]]
    /\ UNCHANGED <<v1, v2, hv, fs, clock, given, tree, config>>

RerunTexts ==
    { SourceText(<<"h", "c", "d">>, "block", <<"1", ".", "2">>, kv, <<>>, <<"d0">>, "last") :
        kv \in { <<"1", ".", "1", "0">>, <<>> } }

RerunDescriptors ==
    { Descriptor(ver, OldZipURL, slug, "none", "none") :
        ver \in { <<>>, << <<"version", JStr(<<"1", ".", "2">>)>> >>,
                  << <<"version", JStr(<<"1", ".", "1", "0">>)>> >> },
        slug \in {<<>>, OldSlug} }

InitRerun ==
    /\ pc = "start"
    /\ v1 = <<>> /\ v2 = <<>> /\ hv = <<>>
    /\ \E text \in RerunTexts, d \in RerunDescriptors :
         /\ fs = [php |-> File(text), phpBak |-> NoFile, ui |-> File(d), uiBak |-> NoFile,
                  zip |-> NoZip]
         /\ given = [text |-> text, comment |-> <<>>, class |-> <<>>, define |-> <<>>,
                     puc |-> "none", doc |-> d]
    /\ clock = "d1"
    /\ updateInfo = ZeroUpdateInfo
    /\ allData = <<>>
    /\ currentVersion = <<>>
    /\ err = ""
    /\ prior = NoPrior
    /\ tree = TestTree
    /\ config \in { c \in MainConfigs : c.SSHHost # <<>> }
    /\ ssh = NoSsh
    /\ run = NoRun

NextRerun == Next \/ Rerun

SpecRerun == InitRerun /\ [][NextRerun]_vars

(***************************************************************************)
(* Inputs of the comparator: dotted strings of up to MaxSegs segments      *)
(***************************************************************************)
Segments == { <<"0">>, <<"2">>, <<"1", "0">>, <<"x">> }

\* operands with a signed segment, which strconv.Atoi accepts
SignedOperands ==
    { <<"-", "1">>, <<"+", "2">>, <<"2", ".", "-", "1">>, <<"2", ".", "0", ".", "-", "1">> }

RECURSIVE Dotted(_)
Dotted(n) ==
    IF n = 1 THEN Segments
    ELSE { p \o <<".">> \o s : p \in Dotted(n - 1), s \in Segments }

VersionOperands ==
    {<<>>} \cup SignedOperands \cup UNION { Dotted(n) : n \in 1..MaxSegs }

(***************************************************************************)
(* Specification of the comparator alone                                   *)
(***************************************************************************)
InitVer ==
    /\ pc = "cmp"
    /\ v1 \in VersionOperands
    /\ v2 \in VersionOperands
    /\ hv = <<>>
    /\ fs = [php |-> NoFile, phpBak |-> NoFile, ui |-> NoFile, uiBak |-> NoFile, zip |-> NoZip]
    /\ clock = "d1"
    /\ updateInfo = ZeroUpdateInfo
    /\ allData = <<>>
    /\ currentVersion = <<>>
    /\ err = ""
    /\ OthersIdle
    /\ given = [text |-> <<>>, comment |-> <<>>, class |-> <<>>, define |-> <<>>,
                puc |-> "none", doc |-> <<>>]

CallGetHigherVersion ==
    /\ pc = "cmp"
    /\ hv' = getHigherVersion(v1, v2)
    /\ pc' = "cmp_done"
    /\ UNCHANGED <<others, v1, v2, fs, clock, updateInfo, allData, currentVersion, err, given>>

NextVer == CallGetHigherVersion

SpecVer == InitVer /\ [][NextVer]_vars

(***************************************************************************)
(* Reading of a version as a tuple of integers, for the properties         *)
(***************************************************************************)
PartsOf(v) == Split(v, ".")
NumAt(v, i) == IF i <= Len(PartsOf(v)) THEN Atoi(PartsOf(v)[i]) ELSE 0
ShorterLen(a, b) == MinOf({Len(PartsOf(a)), Len(PartsOf(b))})
LongerLen(a, b) == CHOOSE x \in {Len(PartsOf(a)), Len(PartsOf(b))} :
                       \A y \in {Len(PartsOf(a)), Len(PartsOf(b))} : x >= y
AgreeOnCommonPrefix(a, b) ==
    \A i \in 1..ShorterLen(a, b) : NumAt(a, i) = NumAt(b, i)
LongerOf(a, b) == IF Len(PartsOf(a)) > Len(PartsOf(b)) THEN a ELSE b
ShorterOf(a, b) == IF Len(PartsOf(a)) > Len(PartsOf(b)) THEN b ELSE a
\* the segments the longer operand has beyond the common prefix, by index
ExtraNonZero(a, b) ==
    { i \in (ShorterLen(a, b) + 1)..LongerLen(a, b) : NumAt(LongerOf(a, b), i) # 0 }
SharedPrefixCase ==
    /\ pc = "cmp_done"
    /\ v1 # <<>> /\ v2 # <<>>
    /\ AgreeOnCommonPrefix(v1, v2)
    /\ Len(PartsOf(v1)) # Len(PartsOf(v2))

\* C3 (as stated): when two non-empty versions agree on every component of
\* their common prefix, getHigherVersion returns the one with more segments,
\* in whichever operand position it is.
C3_LongerAlwaysWins == SharedPrefixCase => hv = LongerOf(v1, v2)

\* C3 (amended): when two non-empty versions agree on every component of
\* their common prefix, the extra segments of the longer one are compared
\* with 0: the longer one is returned if its first extra segment of non-zero
\* integer value is positive, the shorter one if that segment is negative,
\* and the first operand if every extra segment has integer value 0.
C3_LongerWinsUnlessZeroTail ==
    SharedPrefixCase =>
        IF ExtraNonZero(v1, v2) = {} THEN hv = v1
        ELSE IF NumAt(LongerOf(v1, v2), MinOf(ExtraNonZero(v1, v2))) > 0
             THEN hv = LongerOf(v1, v2)
             ELSE hv = ShorterOf(v1, v2)

\* C3 witness: 2.0 against 2.0.0 agree on the common prefix, the second is
\* longer with a zero tail, and the first (shorter) operand was returned.
C3_Witness ==
    /\ SharedPrefixCase
    /\ v1 = <<"2", ".", "0">> /\ v2 = <<"2", ".", "0", ".", "0">>
    /\ hv = v1

\* C4: getHigherVersion returns one of its operands; an empty operand loses
\* to the other one (two empty operands give the empty string); otherwise
\* the operand whose first differing component, read as an integer with a
\* non-numeric segment counting as 0, is greater is returned, and when no
\* component differs the first operand is returned, so that
\* getHigherVersion(v, v) = v.
C4_ReturnsGreaterOperand ==
    pc = "cmp_done" =>
        /\ hv \in {v1, v2}
        /\ (v1 = <<>> => hv = v2)
        /\ (v2 = <<>> => hv = v1)
        /\ (v1 = v2 => hv = v1)
        /\ (v1 # <<>> /\ v2 # <<>> =>
              LET diff == { i \in 1..LongerLen(v1, v2) : NumAt(v1, i) # NumAt(v2, i) }
              IN  IF diff = {} THEN hv = v1
                  ELSE hv = IF NumAt(v1, MinOf(diff)) > NumAt(v2, MinOf(diff))
                            THEN v1 ELSE v2)

\* C4 witness: 0.2.0 against 0.10.0 differ first in the second component
\* (2 < 10) and the second operand was returned.
C4_Witness ==
    /\ pc = "cmp_done"
    /\ v1 = <<"0", ".", "2", ".", "0">>
    /\ v2 = <<"0", ".", "1", "0", ".", "0">>
    /\ hv = v2

(***************************************************************************)
(* Properties of processMainPHPFile                                        *)
(***************************************************************************)
\* the value a pattern captures in a text, <<>> when the pattern finds none
CommentValue(text) ==
    LET m == commentVersionRegex(text)
    IN  IF Len(m) = 4 THEN Slice(text, Idx(m, 2), Idx(m, 3)) ELSE <<>>
ClassValue(text) ==
    LET m == classVersionRegex(text)
    IN  IF Len(m) = 4 THEN Slice(text, Idx(m, 2), Idx(m, 3)) ELSE <<>>
DefineValue(text) ==
    LET m == defineVersionRegex(text)
    IN  IF Len(m) >= 6 THEN Slice(text, Idx(m, 4), Idx(m, 5)) ELSE <<>>

PresentDeclarations == {given.comment, given.class, given.define} \ {<<>>}

\* C1: after processMainPHPFile wrote the source, every declaration that was
\* present (doc-comment tag, private field, named constant), in whatever
\* order they stand in the file and whatever the lengths of the old values,
\* reads the winning version in the written source.
C1_EveryDeclarationReadsWinner ==
    pc = "php_done" =>
        /\ (given.comment # <<>> => CommentValue(fs.php.data) = currentVersion)
        /\ (given.class # <<>> => ClassValue(fs.php.data) = currentVersion)
        /\ (given.define # <<>> => DefineValue(fs.php.data) = currentVersion)

\* the edits of one pass as (span, replacement) pairs on the original text
VersionEdits(text, winner) ==
    LET cm == commentVersionRegex(text)
        km == classVersionRegex(text)
        dm == defineVersionRegex(text)
    IN  (IF Len(cm) = 4 THEN {[from |-> Idx(cm, 2), to |-> Idx(cm, 3), new |-> winner]}
         ELSE {})
        \cup (IF Len(km) = 4 THEN {[from |-> Idx(km, 2), to |-> Idx(km, 3), new |-> winner]}
              ELSE {})
        \cup (IF Len(dm) >= 6 THEN {[from |-> Idx(dm, 4), to |-> Idx(dm, 5), new |-> winner]}
              ELSE {})

LastUpdateEdits(text, date) ==
    LET lm == lastUpdateRegex(text)
        vm == versionLineRegex(text)
    IN  IF Len(lm) >= 4 THEN {[from |-> Idx(lm, 2), to |-> Idx(lm, 3), new |-> date]}
        ELSE IF Len(vm) = 4
        THEN {[from |-> Idx(vm, 1), to |-> Idx(vm, 1),
               new |-> Slice(text, LineStart(text, Idx(vm, 2)), Idx(vm, 2))
                         \o <<KwLastUpdate>> \o date]}
        ELSE {}

PucEdits(text, url, slug) ==
    LET pm == pucRegex(text)
    IN  IF Len(pm) # 8 THEN {}
        ELSE {[from |-> Idx(pm, 2), to |-> Idx(pm, 3), new |-> url],
              [from |-> Idx(pm, 6), to |-> Idx(pm, 7), new |-> slug]}

\* the edits applied from the highest offset down, so that no edit moves the
\* span of another
RECURSIVE ApplyEdits(_, _)
ApplyEdits(text, edits) ==
    IF edits = {} THEN text
    ELSE LET e == CHOOSE x \in edits : \A y \in edits : y.from <= x.from
         IN  ApplyEdits(Slice(text, 0, e.from) \o e.new \o Slice(text, e.to, Len(text)),
                        edits \ {e})

ExpectedSource ==
    ApplyEdits(given.text,
               VersionEdits(given.text, currentVersion)
                 \cup LastUpdateEdits(given.text, FormatNow("d1"))
                 \cup PucEdits(given.text, NewDownloadURL(updateInfo.DownloadURL),
                               updateInfo.Slug))

\* C2: the source processMainPHPFile wrote is the original with only the
\* matched value spans replaced (declared versions, Last-Update value or the
\* added Last-Update line, URL and slug literal): every other byte is the
\* same and in the same order.
C2_OnlyMatchedSpansReplaced ==
    pc = "php_done" => fs.php.data = ExpectedSource

\* C5: the version processMainPHPFile returns is one of the declarations
\* present in the source and getHigherVersion prefers it to every present
\* declaration; a source with none of the three declarations makes it fail
\* with the no-valid-version error, and then neither the source file nor a
\* .bak file is written.
C5_WinnerIsMaximumOrNoVersion ==
    /\ pc = "php_done" =>
          /\ currentVersion \in PresentDeclarations
          /\ \A d \in PresentDeclarations :
                getHigherVersion(currentVersion, d) = currentVersion
    /\ (pc # "php" /\ PresentDeclarations = {}) =>
          /\ pc = "php_failed"
          /\ err \in {"error.no_valid_version", "error.php_read_file"}
          /\ fs.php = File(given.text)
          /\ ~fs.phpBak.exists

\* C5 witness: a source with no declaration was processed, the call failed
\* with the no-valid-version error and left the file as it was.
C5_Witness ==
    /\ pc = "php_failed"
    /\ PresentDeclarations = {}
    /\ err = "error.no_valid_version"
    /\ fs.php = File(given.text) /\ ~fs.phpBak.exists

(***************************************************************************)
(* Properties of the metadata store                                        *)
(***************************************************************************)
\* p is strictly lower than c: an empty version is lower than any other;
\* otherwise at the first component where the two differ as integers, a
\* missing component counting as 0, p has the smaller one
StrictlyLower(p, c) ==
    IF p = <<>> THEN c # <<>>
    ELSE IF c = <<>> THEN FALSE
    ELSE LET diff == { i \in 1..LongerLen(p, c) : NumAt(p, i) # NumAt(c, i) }
         IN  diff # {} /\ NumAt(p, MinOf(diff)) < NumAt(c, MinOf(diff))

\* C10: a step of processUpdateInfo sets the version of the typed view to
\* the winning version and last-updated to the time of the call if the
\* persisted version is strictly lower than the winning version, and leaves
\* both as they were in every other case (equal, or persisted higher).
C10_UpdatesIffStrictlyLower ==
    [][pc = "t_processUpdateInfo" =>
         IF StrictlyLower(updateInfo.Version, currentVersion)
         THEN /\ updateInfo'.Version = currentVersion
              /\ updateInfo'.LastUpdated = FormatNow(clock)
         ELSE /\ updateInfo'.Version = updateInfo.Version
              /\ updateInfo'.LastUpdated = updateInfo.LastUpdated]_vars

\* C10 witness: the descriptor held version 1.2, the winning version is
\* 1.10, and processUpdateInfo has set the version and the time stamp.
C10_Witness ==
    /\ pc = "t_edit"
    /\ given.doc # <<>>
    /\ given.doc[1] = <<"version", JStr(<<"1", ".", "2">>)>>
    /\ currentVersion = <<"1", ".", "1", "0">>
    /\ updateInfo.Version = currentVersion
    /\ updateInfo.LastUpdated = <<"d1", KwHourMin, KwSec>>

\* the value of a key in a written or given document, read as getUpdateInfo
\* reads it
ValueIn(doc, key) == DecodeValue(LastValue(doc, key))

\* C8: after setUpdateInfo has succeeded, every top-level key of the loaded
\* descriptor that is not the name of a field is in the written file, with
\* the value getUpdateInfo had loaded for it, whatever the caller assigned
\* to the typed view in between.
C8_UnknownKeysKept ==
    pc = "t_done" =>
        \A key \in KeysOf(given.doc) \ Tags :
            /\ key \in KeysOf(fs.ui.data)
            /\ ValueIn(fs.ui.data, key) = ValueIn(given.doc, key)

\* C8 witness: the descriptor held "x": {"y": 1.0}, the caller changed the
\* version of the typed view, and the written file holds "x": {"y": 1}.
C8_Witness ==
    /\ pc = "t_done"
    /\ "x" \in KeysOf(given.doc)
    /\ LastValue(given.doc, "x") = JObj(<<"1", ".", "0">>)
    /\ updateInfo.Version = <<"z">>
    /\ "x" \in KeysOf(fs.ui.data)
    /\ LastValue(fs.ui.data, "x") = JObj(<<"1">>)

\* C9 (as stated): after setUpdateInfo has succeeded, the value the written
\* file holds under the name of each field is the current value of that
\* field in the typed view, the empty value included.
C9_FieldsCarryTypedValue ==
    pc = "t_done" =>
        \A f \in Fields :
            TagOf(f) \in KeysOf(fs.ui.data) =>
                LastValue(fs.ui.data, TagOf(f)).v = updateInfo[f]
                  /\ LastValue(fs.ui.data, TagOf(f)).k # "null"

(***************************************************************************)
(* Properties of the run                                                   *)
(***************************************************************************)
\* the string a written descriptor holds under a key, <<>> when it has none
PersistedString(doc, key) == IF key \in KeysOf(doc) THEN LastValue(doc, key).v ELSE <<>>

\* a URL up to and including its last separator
DirOf(url) ==
    LET Upto(slashes) ==
            IF slashes = {} THEN <<>>
            ELSE SubSeq(url, 1, CHOOSE i \in slashes : \A k \in slashes : k <= i)
    IN  Upto({ i \in 1..Len(url) : url[i] = "/" })

\* the literals of the registration call in a source text
PucUrlLiteral(text) ==
    LET Literal(m) == IF Len(m) = 8 THEN Slice(text, Idx(m, 2), Idx(m, 3)) ELSE <<>>
    IN  Literal(pucRegex(text))
PucSlugLiteral(text) ==
    LET Literal(m) == IF Len(m) = 8 THEN Slice(text, Idx(m, 6), Idx(m, 7)) ELSE <<>>
    IN  Literal(pucRegex(text))

\* C6 (as stated): when a run has completed, the slug literal of the
\* registration call in the written source is the slug of the persisted
\* metadata, and its URL literal is the persisted download URL with the file
\* name replaced by update_info.json, whether or not the metadata file held
\* a slug.
C6_CallReferencesDescriptor ==
    pc = "done" =>
        /\ PucSlugLiteral(fs.php.data) = PersistedString(fs.ui.data, "slug")
        /\ PucUrlLiteral(fs.php.data) =
               DirOf(PersistedString(fs.ui.data, "download_url")) \o UpdateInfoJson

\* C7: a step of processMainPHPFile or of setUpdateInfo changes the file at
\* its path only together with making <path>.bak the file as it was before
\* the step; when the rename fails the step ends in the rename error with
\* the file and its backup as they were; when the step succeeds <path>.bak
\* holds the content the file had before the step and the file exists.
C7_BackupThenOverwrite ==
    [][/\ pc = "processMainPHPFile" =>
            /\ fs'.php # fs.php => fs'.phpBak = fs.php
            /\ err' = "error.rename_file" => fs' = fs /\ pc' = "exit1"
            /\ pc' = "processUpdateInfo" => fs'.phpBak = fs.php /\ fs'.php.exists
       /\ pc = "setUpdateInfo" =>
            /\ fs'.ui # fs.ui => fs'.uiBak = fs.ui
            /\ err' = "error.backup_create" => fs' = fs /\ pc' = "exit1"
            /\ pc' = "upload" => fs'.uiBak = fs.ui /\ fs'.ui.exists]_vars

\* C7 witness: a completed run in which both files were rewritten and each
\* backup holds what the run found at the path.
C7_Witness ==
    /\ pc = "done"
    /\ fs.phpBak = File(given.text) /\ fs.php.exists /\ fs.php.data # given.text
    /\ fs.uiBak = File(given.doc) /\ fs.ui.exists /\ fs.ui.data # given.doc

(***************************************************************************)
(* Properties of a second run                                              *)
(***************************************************************************)
\* the stages after setUpdateInfo has returned without error
Persisted ==
    {"upload", "uploadFiles", "dial", "parseRemotePath", "createRemoteDir", "uploadZip",
     "uploadInfo", "uploadBanners", "uploadIcons", "uploaded", "uploadFailed",
     "handleGitHubIntegration", "done"}

\* C11 (as stated): when the program runs a second time and finds the same
\* winning version as the run before, reconciling and persisting the
\* metadata writes nothing: update_info.json and update_info.json.bak are the
\* files the first run left, and version and last-updated of the typed view
\* are the values the first run left.
C11_SecondRunWritesNothing ==
    (prior.run = 2 /\ pc \in Persisted /\ currentVersion = prior.version) =>
        /\ fs.ui = prior.ui
        /\ fs.uiBak = prior.uiBak
        /\ updateInfo.Version = prior.Version
        /\ updateInfo.LastUpdated = prior.LastUpdated


(***************************************************************************)
(* The archive against the tree                                            *)
(***************************************************************************)
HasSuffix(name, suffix) ==
    /\ Len(name) >= Len(suffix)
    /\ SubSeq(name, Len(name) - Len(suffix) + 1, Len(name)) = suffix

\* a name one of the built-in globs matches
BuiltInExcluded(name) ==
    \/ name \in { <<"U", "p", "d", "a", "t", "e", "s">>,
                  <<"u", "p", "d", "a", "t", "e", ".", "c", "o", "n", "f", "i", "g">>,
                  <<"u", "p", "d", "a", "t", "e", ".", "l", "o", "g">>,
                  <<"c", "o", "m", "p", "o", "s", "e", "r", ".", "l", "o", "c", "k">>,
                  <<"T", "h", "u", "m", "b", "s", ".", "d", "b">> }
    \/ HasSuffix(name, <<".", "b", "a", "k">>)
    \/ HasSuffix(name, <<".", "c", "o", "d", "e", "-", "w", "o", "r", "k", "s", "p", "a",
                         "c", "e">>)

\* a name one of the globs of the caller matches; a malformed glob matches nothing
CallerExcluded(name) ==
    \E i \in 1..Len(config.SkipPattern) :
        /\ \A k \in 1..Len(config.SkipPattern[i]) : config.SkipPattern[i][k] # "["
        /\ Glob(tree.host, config.SkipPattern[i], name)

\* a regular file none of whose path segments is excluded
Included(n) ==
    /\ ~n.dir
    /\ \A k \in 1..Len(n.path) :
          ~BuiltInExcluded(n.path[k]) /\ ~CallerExcluded(n.path[k])

\* the segments of a relative path with forward slashes between them
RECURSIVE JoinSlash(_)
JoinSlash(segs) ==
    IF Len(segs) = 1 THEN segs[1] ELSE segs[1] \o <<"/">> \o JoinSlash(Tail(segs))

ArchiveName(n) == updateInfo.Slug \o <<"/">> \o JoinSlash(n.path)

EntryNames(zip) == { zip.entries[i].name : i \in 1..Len(zip.entries) }

\* C12: a completely written archive holds a file of the tree if and only if
\* the file is a regular file and neither its base name nor any other segment
\* of its relative path matches a glob of the exclusion set, which is the
\* built-in globs together with the globs of the caller; so a matching
\* directory takes its whole subtree out and a matching file only itself.
C12_IncludedIffNoSegmentExcluded ==
    (pc = "created" /\ fs.zip.exists /\ fs.zip.complete) =>
        \A n \in tree.nodes : (ArchiveName(n) \in EntryNames(fs.zip)) <=> Included(n)

\* a file below the built-in Updates is left out, a file of the same name at
\* the top is kept, and a glob of the caller has taken a file out
C12_Witness ==
    /\ pc = "created" /\ fs.zip.exists /\ fs.zip.complete
    /\ config.SkipPattern # <<>>
    /\ \E n \in tree.nodes : n.path = <<UpdatesDir, ATxt>>
    /\ \E n \in tree.nodes : n.path = <<NestedDir, ThumbsDb>>
    /\ \E n \in tree.nodes :
          ~n.dir /\ CallerExcluded(n.path[Len(n.path)]) /\ ~BuiltInExcluded(n.path[1])
    /\ \E n \in tree.nodes : Len(n.path) = 2 /\ Included(n)
    /\ \E n \in tree.nodes : Len(n.path) = 1 /\ Included(n)

\* C13: every entry of the archive is named by the slug, "/" and the
\* relative path of a regular file of the tree with forward slashes between
\* its segments, and holds the bytes of that file; a completely written
\* archive has exactly one entry for every included regular file, and none
\* for the root or for a directory.
C13_OneEntryPerIncludedFile ==
    (pc = "created" /\ fs.zip.exists) =>
        /\ \A i \in 1..Len(fs.zip.entries) :
              \E n \in tree.nodes :
                 /\ ~n.dir
                 /\ fs.zip.entries[i].name = ArchiveName(n)
                 /\ fs.zip.entries[i].data = n.data
        /\ \A i, j \in 1..Len(fs.zip.entries) :
              fs.zip.entries[i].name = fs.zip.entries[j].name => i = j
        /\ fs.zip.complete =>
              Len(fs.zip.entries) = Cardinality({ n \in tree.nodes : Included(n) })

\* on a host that separates with backslashes, a file in a directory and a
\* file at the top are in the archive, next to a directory that has no entry
C13_Witness ==
    /\ pc = "created" /\ fs.zip.exists /\ fs.zip.complete
    /\ tree.host = "windows"
    /\ \E n \in tree.nodes :
          Len(n.path) = 2 /\ Included(n) /\ ArchiveName(n) \in EntryNames(fs.zip)
    /\ \E n \in tree.nodes :
          Len(n.path) = 1 /\ Included(n) /\ ArchiveName(n) \in EntryNames(fs.zip)
    /\ Len(fs.zip.entries) >= 3


\* p before q, comparing segment by segment
RECURSIVE PathLess(_, _)
PathLess(p, q) ==
    IF q = <<>> THEN FALSE
    ELSE IF p = <<>> THEN TRUE
    ELSE IF p[1] = q[1] THEN PathLess(Tail(p), Tail(q))
    ELSE StringLess(p[1], q[1])

\* the relative path of the file an entry was made from
PathOfEntry(e) == (CHOOSE n \in tree.nodes : ~n.dir /\ ArchiveName(n) = e.name).path

\* C16: two calls of createZipFile on the same tree with the same slug and
\* the same exclusion set that both succeed write the same sequence of
\* entries, with the same names and contents, and the sequence is in the
\* depth-first order that compares relative paths segment by segment,
\* whatever the order in which the host lists a directory.
C16_SameEntriesInWalkOrder ==
    (pc = "created" /\ prior.run >= 2 /\ fs.zip.exists /\ fs.zip.complete
       /\ prior.zip.exists /\ prior.zip.complete) =>
        /\ fs.zip.entries = prior.zip.entries
        /\ \A i, j \in 1..Len(fs.zip.entries) :
              i < j => PathLess(PathOfEntry(fs.zip.entries[i]), PathOfEntry(fs.zip.entries[j]))

\* the second of two complete archives, with a file in a directory written
\* before a file at the top whose name starts with the name of the directory
C16_Witness ==
    /\ pc = "created" /\ prior.run >= 2
    /\ fs.zip.exists /\ fs.zip.complete /\ prior.zip.exists /\ prior.zip.complete
    /\ \E i, j \in 1..Len(fs.zip.entries) :
          /\ i < j
          /\ PathOfEntry(fs.zip.entries[i]) = <<NestedDir, ATxt>>
          /\ PathOfEntry(fs.zip.entries[j]) = <<NestedX>>
    /\ Len(fs.zip.entries) >= 4


(***************************************************************************)
(* The archive, its name and the download URL                              *)
(***************************************************************************)
HasPrefix(str, prefix) == Len(str) >= Len(prefix) /\ SubSeq(str, 1, Len(prefix)) = prefix

\* C14 (as stated): after a run that built the archive and persisted the
\* metadata, the archive is named <slug>-v<version>.zip, where <slug> is the
\* slug the persisted metadata holds and every entry of the archive is under,
\* and <version> is the winning version.
C14_ArchiveNamedBySlug ==
    (pc \in Persisted /\ fs.zip.exists) =>
        /\ fs.zip.name = PersistedString(fs.ui.data, "slug") \o <<"-", "v">>
                            \o currentVersion \o <<".", "z", "i", "p">>
        /\ \A i \in 1..Len(fs.zip.entries) :
              HasPrefix(fs.zip.entries[i].name,
                        PersistedString(fs.ui.data, "slug") \o <<"/">>)


\* C15: after a run that persisted the metadata, the download URL in the
\* persisted metadata is the download URL that was loaded with nothing but
\* its final file-name segment replaced by the file name of the archive built
\* in this run.
C15_DownloadURLNamesNewArchive ==
    (pc \in Persisted /\ fs.zip.exists) =>
        PersistedString(fs.ui.data, "download_url")
          = DirOf(PersistedString(given.doc, "download_url")) \o fs.zip.name

\* the loaded URL names the old archive twice, and the run has persisted a
\* URL to the archive it built
C15_Witness ==
    /\ pc \in Persisted /\ fs.zip.exists /\ fs.zip.complete
    /\ PersistedString(given.doc, "download_url") = TwiceNamedURL
    /\ PersistedString(fs.ui.data, "download_url") # TwiceNamedURL
    /\ fs.zip.name # Base(TwiceNamedURL)


(***************************************************************************)
(* Properties of the upload                                                *)
(***************************************************************************)
\* parseRemotePath has returned to uploadFiles, and has returned an error
ParseRemotePathReturned == ssh.client # "none" /\ pc # "parseRemotePath"
ParseRemotePathFailed == ParseRemotePathReturned /\ pc = "uploadFailed" /\ ssh.calls = <<>>

\* the path component of the URLs that name a file
PathOfFileURL(url) ==
    CASE url = FileInDirsURL -> <<"/", "a", "/", "b", "/", "f", ".", "z", "i", "p">>
      [] url = FileAtTopURL -> <<"/", "f", ".", "z", "i", "p">>
      [] url = QueryAndFragmentURL -> <<"/", "a", "/", "f", ".", "z", "i", "p">>

\* a path without its final segment and the separator before it
RECURSIVE WithoutFinalSegment(_)
WithoutFinalSegment(path) ==
    IF path = <<>> THEN <<>>
    ELSE IF path[Len(path)] = "/" THEN SubSeq(path, 1, Len(path) - 1)
    ELSE WithoutFinalSegment(SubSeq(path, 1, Len(path) - 1))

\* a directory without the one separator it may end in
WithoutTrailingSeparator(dir) ==
    IF dir # <<>> /\ dir[Len(dir)] = "/" THEN SubSeq(dir, 1, Len(dir) - 1) ELSE dir

\* C17: for a download URL whose path has a file-name segment,
\* parseRemotePath returns without error the base directory, a trailing
\* separator stripped, followed by the path of the URL without its final
\* segment.
C17_RemoteDirFromURL ==
    (ParseRemotePathReturned
       /\ updateInfo.DownloadURL \in {FileInDirsURL, FileAtTopURL, QueryAndFragmentURL}) =>
        /\ ~ParseRemotePathFailed
        /\ ssh.remoteLocalPath
             = WithoutTrailingSeparator(config.SSHDirBase)
                 \o WithoutFinalSegment(PathOfFileURL(updateInfo.DownloadURL))

\* the URL with query and fragment and the base /w/ have given /w/a
C17_Witness ==
    /\ pc = "createRemoteDir"
    /\ updateInfo.DownloadURL = QueryAndFragmentURL
    /\ config.SSHDirBase = <<"/", "w", "/">>
    /\ ssh.remoteLocalPath = <<"/", "w", "/", "a">>

\* C18 (as stated): for a URL that does not name a file parseRemotePath
\* returns no path and an error: the ends-in-directory error when the path
\* of the URL ends in a separator, the no-filename error when the path has
\* no file-name segment, as the empty path has.
C18_NoFileRejectedByKind ==
    (ParseRemotePathReturned
       /\ updateInfo.DownloadURL \in {DirectoryURL, ColonHostURL, NoPathURL}) =>
        /\ ParseRemotePathFailed
        /\ ssh.remoteLocalPath = <<>>
        /\ updateInfo.DownloadURL \in {DirectoryURL, ColonHostURL}
              => err = "error.url_ends_directory"
        /\ updateInfo.DownloadURL = NoPathURL => err = "error.url_no_filename"

\* the local file a call of uploadFileViaSFTP was made for
LocalData(file) ==
    CASE file = "zip" -> fs.zip.entries
      [] file = "info" -> fs.ui.data
      [] file = "banner" -> LocalImage(tree, ImageURL(BannerPng)).data
      [] file = "icon" -> LocalImage(tree, ImageURL(IconPng)).data

\* C19: when the probe of a call of uploadFileViaSFTP reports a modification
\* time that is not older than the modification time of the local file, the
\* call starts no remote command that writes the file and returns success;
\* when the probe reports the file absent, the call makes the transfer: it
\* starts the writing command unless a step before the start fails, and when
\* it returns success the remote file holds the bytes of the local file.
C19_SkipWhenRemoteCurrent ==
    \A i \in 1..Len(ssh.calls) :
        /\ (ssh.calls[i].probe.err = ""
              /\ ssh.calls[i].probe.modTime >= ssh.localModTime[ssh.calls[i].file])
             => (~ssh.calls[i].wrote /\ ssh.calls[i].err = "")
        /\ ssh.calls[i].probe.err = "file does not exist"
             => /\ ssh.calls[i].wrote \/ ssh.calls[i].err \in {"session", "open", "pipe", "start"}
                /\ ssh.calls[i].err = ""
                     => /\ ssh.calls[i].wrote
                        /\ ssh.remote[ssh.calls[i].file].exists
                        /\ ssh.remote[ssh.calls[i].file].data = LocalData(ssh.calls[i].file)

\* the archive was skipped because the remote copy is as new as the local
\* file, and the descriptor, absent on the remote host, was transferred
C19_Witness ==
    /\ pc = "uploaded"
    /\ Len(ssh.calls) = 2
    /\ ssh.calls[1].probe.err = "" /\ ssh.calls[1].probe.modTime = ssh.localModTime.zip
    /\ ~ssh.calls[1].wrote
    /\ ssh.calls[2].probe.err = "file does not exist" /\ ssh.calls[2].wrote
    /\ ssh.remote.info.data = fs.ui.data

\* the configuration yields no usable credential method
NoUsableMethod ==
    /\ config.SSHKeyFile = <<>> \/ ssh.key \in {"unreadable", "unparseable"}
    /\ config.SSHPassword = <<>>

\* C20: when the configuration yields no usable credential method (neither
\* key file nor password, or a key file that cannot be read or parsed and no
\* password), uploadFiles fails with the no-auth-method error, and it never
\* attempts a connection.
C20_NoAuthFailsBeforeDial ==
    NoUsableMethod =>
        /\ ssh.dials = 0 /\ ssh.client = "none"
        /\ pc # "uploadFiles" => (pc = "uploadFailed" /\ err = "error.ssh_no_auth")

\* a key file is configured but cannot be parsed, there is no password, and
\* uploadFiles has failed
C20_Witness ==
    /\ pc = "uploadFailed" /\ err = "error.ssh_no_auth"
    /\ config.SSHKeyFile # <<>> /\ ssh.key = "unparseable"
    /\ config.SSHPassword = <<>>
    /\ ssh.dials = 0

(***************************************************************************)
(* C23: when the source declares a version but holds no registration call  *)
(* matching the pattern, or the call's URL literal is empty,                *)
(* processMainPHPFile fails with error.no_valid_puc and the source file is  *)
(* left as it was: no .bak file, none of the edits written.                 *)
(***************************************************************************)
\* os.ReadFile succeeded and at least one version declaration was found
VersionsRead == err # "error.php_read_file" /\ err # "error.no_valid_version"

C23_MissingIntegrationLeavesSource ==
    (pc # "php" /\ VersionsRead /\ ~PucValid(given.text))
        => /\ pc = "php_failed"
           /\ err = "error.no_valid_puc"
           /\ fs.php = File(given.text)
           /\ ~fs.phpBak.exists

(***************************************************************************)
(* Properties of the stages of a run                                       *)
(***************************************************************************)
\* the stages of main in the order of its text
StageOrder ==
    <<"workDir", "configFile", "initLogging", "LoadConfig", "getUpdateInfo",
      "processMainPHPFile", "processUpdateInfo", "processChangelog", "processSVGFiles",
      "createZipFile", "setUpdateInfo", "uploadFiles", "handleGitHubIntegration">>
Pos(stage) == CHOOSE i \in 1..Len(StageOrder) : StageOrder[i] = stage

\* the stages a run cannot go on without, and the stages whose failure is
\* only reported
FailFastStages ==
    {"workDir", "configFile", "LoadConfig", "getUpdateInfo", "processMainPHPFile",
     "createZipFile", "setUpdateInfo"}
FailSoftStages ==
    {"processChangelog", "processSVGFiles", "uploadFiles", "handleGitHubIntegration"}

\* the run has ended with an exit status that is not 0: os.Exit(1) or a panic
ExitedNonZero == pc \in {"exit1", "crashed"}

\* nothing has been sent to or asked of the remote host
NoRemoteSync == ssh.dials = 0 /\ ssh.calls = <<>> /\ ssh.remote = NoSsh.remote

\* C21: when one of the stages working-directory check, config-file check,
\* config load, metadata read, source patch, archive build and metadata
\* persist fails, the run ends with a non-zero exit status and no later
\* stage runs: the failing stage is the last one that returned, a failure
\* before the archive build leaves no archive, a failure before the metadata
\* persist leaves update_info.json as it was with no backup, and nothing is
\* sent to the remote host.
C21_FailFast ==
    \A i \in 1..Len(run.stages) :
        (run.stages[i].name \in FailFastStages /\ run.stages[i].err # "") =>
            /\ i = Len(run.stages)
            /\ ExitedNonZero
            /\ Pos(run.stages[i].name) < Pos("createZipFile") => fs.zip = NoZip
            /\ Pos(run.stages[i].name) < Pos("setUpdateInfo") =>
                   (fs.ui.data = given.doc /\ ~fs.uiBak.exists)
            /\ NoRemoteSync

C21_Witness ==
    /\ pc = "exit1"
    /\ Len(run.stages) = Pos("createZipFile")
    /\ run.stages[Len(run.stages)] = [name |-> "createZipFile", err |-> "error.zip_creation"]
    /\ run.stages[Pos("processSVGFiles")].err # ""
    /\ config.SSHHost # <<>>

\* the position of the run once the stage has reported its failure
AfterSoftFailure(stage) ==
    CASE stage = "processChangelog" -> {"processSVGFiles"}
      [] stage = "processSVGFiles" -> {"createZipFile"}
      [] stage = "uploadFiles" -> {"handleGitHubIntegration"}
      [] stage = "handleGitHubIntegration" -> {"done"}

C22_NeverAborts ==
    /\ \A i \in 1..Len(run.stages) :
         (run.stages[i].name \in FailSoftStages /\ run.stages[i].err # "") =>
             /\ i = Len(run.stages) => pc \in AfterSoftFailure(run.stages[i].name)
             /\ i < Len(run.stages) =>
                    Pos(run.stages[i + 1].name) \in
                        { Pos(run.stages[i].name) + 1,
                          IF config.SSHHost = <<>> \/ config.SSHUser = <<>>
                          THEN Pos(run.stages[i].name) + 2
                          ELSE Pos(run.stages[i].name) + 1 }
             /\ run.stages[i].err \in { run.logged[k] : k \in 1..Len(run.logged) }
    /\ ExitedNonZero => run.stages[Len(run.stages)].name \notin FailSoftStages
    /\ pc = "done" =>
         /\ run.stages[Len(run.stages)].name = "handleGitHubIntegration"
         /\ run.printed[Len(run.printed)] = "app.release_process_completed"
         /\ run.logged[Len(run.logged)] = "app.release_process_completed"

Succeeded(stage) ==
    \E i \in 1..Len(run.stages) : run.stages[i] = [name |-> stage, err |-> ""]

\* C24: the stages of a run return in the order of main; an archive exists
\* only after the source patch succeeded, and its entry of the main PHP file
\* holds the patched source; the metadata is persisted only after the archive
\* build succeeded, and the persisted download URL ends in the name of that
\* archive; the remote host is dialled and files are transferred only after
\* the metadata persist succeeded, and a descriptor or archive that was
\* transferred is the persisted descriptor and the archive of this run.
C24_StagesInOrder ==
    /\ \A i \in 1..Len(run.stages), j \in 1..Len(run.stages) :
         i < j => Pos(run.stages[i].name) < Pos(run.stages[j].name)
    /\ fs.zip.exists =>
         /\ Succeeded("processMainPHPFile")
         /\ \A k \in 1..Len(fs.zip.entries) :
              fs.zip.entries[k].name = EntryName(tree.host, fs.zip.slug, MainPhp)
                  => fs.zip.entries[k].data = fs.php.data
    /\ Succeeded("setUpdateInfo") =>
         /\ Succeeded("createZipFile")
         /\ fs.zip.exists
         /\ HasSuffix(PersistedString(fs.ui.data, "download_url"), fs.zip.name)
    /\ ~NoRemoteSync =>
         /\ Succeeded("setUpdateInfo")
         /\ \A k \in 1..Len(ssh.calls) :
              (ssh.calls[k].wrote /\ ssh.calls[k].err = "") =>
                  ssh.remote[ssh.calls[k].file].data = LocalData(ssh.calls[k].file)

C24_Witness ==
    /\ pc = "done"
    /\ Succeeded("uploadFiles")
    /\ ssh.remote.info.data = fs.ui.data
    /\ ssh.remote.zip.data = fs.zip.entries
    /\ \E k \in 1..Len(fs.zip.entries) :
         /\ fs.zip.entries[k].name = EntryName(tree.host, fs.zip.slug, MainPhp)
         /\ fs.zip.entries[k].data # given.text

\* C28 (as stated): when the run has ended, on whichever path, every
\* resource it acquired has been released: update.log is not open and the
\* SSH client is not open.
C28_ResourcesReleased ==
    pc \in {"done", "exit1", "crashed"} => (run.logFile # "open" /\ ssh.client # "open")

\* C29 (as stated): every failure a stage of the run returned has been
\* printed and has been appended to update.log.
C29_EveryFailureLogged ==
    \A i \in 1..Len(run.stages) :
        run.stages[i].err # "" =>
            /\ run.stages[i].err \in { run.printed[k] : k \in 1..Len(run.printed) }
            /\ run.stages[i].err \in { run.logged[k] : k \in 1..Len(run.logged) }

(***************************************************************************)
(* Properties of the transfers                                             *)
(***************************************************************************)
\* the steps of a transfer in the order of the code
TransferOrder == SubSeq(TransferSteps, 1, StepNo("wait"))

IsPrefix(a, b) == Len(a) <= Len(b) /\ a = SubSeq(b, 1, Len(a))

\* the call got as far as the transfer and one of its steps failed
StepFailed(call) == \E k \in 1..Len(TransferOrder) : TransferOrder[k] = call.err

\* C25 (as stated): the steps of a transfer are made in the order session,
\* local file, input stream, start of the remote command, copy of the bytes,
\* close of the input stream, wait for the exit status; success is returned
\* only after the wait succeeded; and when a step fails the call returns the
\* error and no later step is made: the failing step is the last one made.
C25_NoStepAfterFailure ==
    \A i \in 1..Len(ssh.calls) :
        /\ IsPrefix(ssh.calls[i].steps, TransferOrder)
        /\ (ssh.calls[i].err = "" /\ ssh.calls[i].wrote) => ssh.calls[i].steps = TransferOrder
        /\ StepFailed(ssh.calls[i]) =>
               ssh.calls[i].steps[Len(ssh.calls[i].steps)] = ssh.calls[i].err

\* C25 (amended): the steps of a transfer are made in that order; success is
\* returned only after the wait succeeded; when a step fails the call returns
\* the error and makes no later step, except that after a failed copy the
\* input stream is still closed before the error is returned (the wait is not
\* made).
C25_StepsInOrderCloseAfterFailedCopy ==
    \A i \in 1..Len(ssh.calls) :
        /\ IsPrefix(ssh.calls[i].steps, TransferOrder)
        /\ (ssh.calls[i].err = "" /\ ssh.calls[i].wrote) => ssh.calls[i].steps = TransferOrder
        /\ (StepFailed(ssh.calls[i]) /\ ssh.calls[i].err # "copy") =>
               ssh.calls[i].steps[Len(ssh.calls[i].steps)] = ssh.calls[i].err
        /\ ssh.calls[i].err = "copy" =>
               ssh.calls[i].steps = SubSeq(TransferSteps, 1, StepNo("close"))

C25_Witness ==
    /\ pc = "uploadFailed"
    /\ Len(ssh.calls) = 2
    /\ ssh.calls[1].steps = TransferOrder
    /\ ssh.calls[2].err = "copy"
    /\ ssh.calls[2].steps[Len(ssh.calls[2].steps)] = "close"

\* the entries of the descriptor's banners and icons
ImageEntries ==
    { [kind |-> "banner", key |-> e.key, url |-> e.url] : e \in updateInfo.Banners }
      \cup { [kind |-> "icon", key |-> e.key, url |-> e.url] : e \in updateInfo.Icons }

\* the entry's URL does not parse, or Updates/ holds no file of its name
Unusable(e) == ParseURL(e.url).err # "" \/ ~LocalImage(tree, e.url).exists

\* C26: a banner or icon entry whose URL is malformed or whose local file
\* does not exist gives a warning and no transfer; the loops go on to the
\* other entries, so that when uploadFiles returns success every entry has
\* been visited and every entry with a file has been transferred; and
\* uploadFiles returns a banner or icon error only after a transfer failed.
C26_ImageWarningOnly ==
    /\ \A e \in ImageEntries :
         ([kind |-> e.kind, key |-> e.key] \in ssh.visited /\ Unusable(e)) =>
             \E w \in ssh.warnings : w.kind = e.kind /\ w.key = e.key
    /\ Cardinality({ i \in 1..Len(ssh.calls) : ssh.calls[i].file \in {"banner", "icon"} })
         = Cardinality({ e \in ImageEntries :
                           [kind |-> e.kind, key |-> e.key] \in ssh.visited /\ ~Unusable(e) })
    /\ pc = "uploaded" =>
         /\ err = ""
         /\ \A e \in ImageEntries : [kind |-> e.kind, key |-> e.key] \in ssh.visited
    /\ (pc = "uploadFailed" /\ err \in {"error.banner_upload", "error.icon_upload"}) =>
         /\ ssh.calls[Len(ssh.calls)].file \in {"banner", "icon"}
         /\ ssh.calls[Len(ssh.calls)].err # ""

C26_Witness ==
    /\ pc = "uploaded"
    /\ Cardinality(ssh.warnings) = 3
    /\ Len(ssh.calls) = 4
    /\ ssh.remote.banner.data = LocalData("banner")
    /\ ssh.remote.icon.data = LocalData("icon")

\* C30: the descriptor and the images are transferred only after the call
\* for the archive returned success (the archive transferred, or skipped as
\* current): every other call comes after a first call that is the archive's
\* and returned no error, and when the archive's call fails uploadFiles
\* returns with no other call made and the remote descriptor and images as
\* they were.
C30_DescriptorAfterArchive ==
    /\ \A i \in 1..Len(ssh.calls) :
         ssh.calls[i].file # "zip" =>
             (i > 1 /\ ssh.calls[1].file = "zip" /\ ssh.calls[1].err = "")
    /\ (Len(ssh.calls) >= 1 /\ ssh.calls[1].err # "") =>
         /\ Len(ssh.calls) = 1
         /\ pc = "uploadFailed" /\ err = "error.zip_upload"
         /\ ssh.remote.info = NoRemoteFile
         /\ ssh.remote.banner = NoRemoteFile /\ ssh.remote.icon = NoRemoteFile

C30_Witness ==
    /\ pc = "uploadFailed"
    /\ Len(ssh.calls) = 1
    /\ ssh.calls[1].err = "wait" /\ ssh.calls[1].wrote
    /\ ssh.remote.zip.exists
    /\ updateInfo.Banners # {}

(***************************************************************************)
(* Properties of the archive write                                         *)
(***************************************************************************)
\* C27 (as stated): createZipFile returns an error whenever the archive was
\* not written to the end: after a call that returned no error the archive
\* exists and is complete, the close of the writer included.
C27_SuccessOnlyWhenComplete ==
    (pc = "created" /\ err = "") => (fs.zip.exists /\ fs.zip.complete)

=============================================================================
